---- MODULE Spec2Model ----
(***************************************************************************)
(* Model of the mock WorkOn RBGA server, mock-server/mock_workon_server.py: *)
(* the two in-memory stores, the key generator, the payload validator and   *)
(* the route handlers; and of its client, python_client/workon_api.py.      *)
(*                                                                          *)
(* JSON values are modelled as tagged records so that Python's dynamic      *)
(* operations (in, .get, isinstance, iteration, truthiness) can be computed *)
(* as the interpreter computes them, including the exceptions they raise.   *)
(*                                                                          *)
(* Five specifications:                                                     *)
(*   Spec         the server handling one request at a time, over a run;    *)
(*   SpecOne      one create request to a freshly started server, over a    *)
(*                wide set of bodies;                                       *)
(*   SpecThreads  two create_request calls on two worker threads;           *)
(*   SpecServer   the server with all its routes, one request at a time;    *)
(*   SpecClient   the client of python_client/workon_api.py calling the     *)
(*                server.                                                   *)
(*                                                                          *)
(* Time is a logical clock: every create that reaches datetime.now() reads  *)
(* the next instant.                                                        *)
(***************************************************************************)
EXTENDS Integers, Sequences, FiniteSets, TLC

VARIABLES
    requests_db,     \* insertion-ordered dict: sequence of request records, one per key
    attachments_db,  \* insertion-ordered dict: sequence of attachment records, one per id
    clock,           \* number of create calls that have read datetime.now()
    last,            \* the handler invocation of the latest request: operation, inputs,
                     \* status code, response (none when the request reached no handler)
    returned,        \* keys answered by the successful full-create calls, in call order
    created,         \* what the callers of the whole server remember: the create
                     \* calls answered 201, in call order, each with its route, the
                     \* body sent and the key answered
    pc,              \* per worker thread: position inside create_request
    t_payload,       \* per worker thread: local variable payload
    t_key,           \* per worker thread: local variable request_key
    t_record,        \* per worker thread: local variable created_request
    t_scan,          \* per worker thread: the dict iterator and max_num of the key scan
    t_i,             \* per worker thread: index of the attachment loop
    t_ids,           \* per worker thread: local variable attachment_ids
    t_resp,          \* per worker thread: the answer returned, once returned
    events,          \* order of the scan and insert steps of the worker threads
    api,             \* the client: the constructor call made and the object or exception it gave
    sent,            \* the client's last outbound HTTP call, as handed to the session
    result           \* the client's last method call: its arguments and what it gave
                     \* its caller

vars == <<requests_db, attachments_db, clock, last, returned, created,
          pc, t_payload, t_key, t_record, t_scan, t_i, t_ids, t_resp, events,
          api, sent, result>>

store_vars == <<requests_db, attachments_db>>

thread_vars == <<pc, t_payload, t_key, t_record, t_scan, t_i, t_ids, t_resp, events>>

client_vars == <<api, sent, result>>

(***************************************************************************)
(* Bounds of the model.                                                     *)
(***************************************************************************)
\* create calls (full or draft) that pass validation, per run
MaxClock == 3

(***************************************************************************)
(* JSON values.                                                             *)
(***************************************************************************)
Str(s) == [t |-> "str", s |-> s]
Num(n) == [t |-> "num", n |-> n]
Null == [t |-> "null"]
Bool(b) == [t |-> "bool", b |-> b]
List(items) == [t |-> "list", items |-> items]
Obj(f) == [t |-> "obj", f |-> f]
EmptyObj == Obj(<<>>)

IsObj(v) == v.t = "obj"
IsList(v) == v.t = "list"

Keys(o) == DOMAIN o.f

\* d[k] = v on a dict (a copy with the entry set)
SetKey(o, k, v) == Obj([x \in Keys(o) \cup {k} |-> IF x = k THEN v ELSE o.f[x]])

\* a dict without entry k
DelKey(o, k) == Obj([x \in Keys(o) \ {k} |-> o.f[x]])

(***************************************************************************)
(* Python operations on JSON values.                                        *)
(***************************************************************************)
\* The multi-word strings of the model, with the names they contain.
AllTopNames == "summary pkey issuetype applicant priority sourceSystem data"
AllDataNames ==
    "rbga.field.termCheck rbga.field.description rbga.field.workflowType rbga.field.approver1"

\* `k in s` for two strings: substring test, over the strings of the model
IsSubstring(k, s) ==
    \/ k = s
    \/ /\ s = AllTopNames
       /\ k \in {"summary", "pkey", "issuetype", "applicant", "priority",
                 "sourceSystem", "data"}
    \/ /\ s = AllDataNames
       /\ k \in {"rbga.field.termCheck", "rbga.field.description",
                 "rbga.field.workflowType", "rbga.field.approver1"}

\* `k in c` raises TypeError when c is None, a number or a boolean
InRaises(c) == c.t \in {"null", "num", "bool"}

\* `k in c` for a string k: key of a dict, element of a list, substring of a string
PyIn(k, c) ==
    CASE c.t = "obj" -> k \in Keys(c)
      [] c.t = "list" -> \E i \in 1..Len(c.items) : c.items[i] = Str(k)
      [] c.t = "str" -> IsSubstring(k, c.s)
      [] OTHER -> FALSE

\* c.get raises AttributeError unless c is a dict
GetRaises(c) == ~IsObj(c)

\* c.get(k, default) on a dict
PyGet(c, k, default) == IF k \in Keys(c) THEN c.f[k] ELSE default

\* `not v`
Falsy(v) ==
    CASE v.t = "null" -> TRUE
      [] v.t = "bool" -> ~v.b
      [] v.t = "num" -> v.n = 0
      [] v.t = "str" -> v.s = ""
      [] v.t = "list" -> Len(v.items) = 0
      [] v.t = "obj" -> Keys(v) = {}

(***************************************************************************)
(* Request keys.  A key is the string the server builds; split("-") is      *)
(* computed as the inverse of "-".join over the keys the server can build.  *)
(***************************************************************************)
\* first eight characters of str(uuid.uuid4()), upper-cased: eight hex digits
Tokens == {"1A2B3C4D", "00000002"}

\* largest number whose decimal form int() has to recognise in a run
ParseBound == MaxClock + 2

Join(segs) ==
    IF Len(segs) = 2 THEN segs[1] \o "-" \o segs[2]
    ELSE segs[1] \o "-" \o segs[2] \o "-" \o segs[3]

KeySegments ==
    {<<"RBGA", ToString(n)>> : n \in 0..ParseBound}
        \cup {<<"RBGA", "DRAFT", tok>> : tok \in Tokens}

\* key.split("-")
Split(key) == CHOOSE segs \in KeySegments : Join(segs) = key

\* key.startswith("RBGA-")
StartsWithPrefix(key) == Split(key)[1] = "RBGA" /\ Len(Split(key)) >= 2

\* the decimal forms of n among the segments of the model: plain, and padded with
\* zeros to eight digits (int() accepts leading zeros)
DecimalForms(n) == {ToString(n)} \cup (IF n < 10 THEN {"0000000" \o ToString(n)} ELSE {})

\* int(seg) succeeds exactly on a decimal literal
IntParses(seg) == \E n \in 0..ParseBound : seg \in DecimalForms(n)

IntOf(seg) == CHOOSE n \in 0..ParseBound : seg \in DecimalForms(n)

\* min in place of max
PyMax_Min(a, b) == IF a <= b THEN a ELSE b

PyMax(a, b) == IF a >= b THEN a ELSE b

\* requests_db.keys(), in insertion order
DbKeys(db) == [i \in 1..Len(db) |-> db[i].key]

KeySet(db) == {db[i].key : i \in 1..Len(db)}

\* the number taken from the last segment of the key instead of the second
ScanStep_LastSegment(key, max_num) ==
    IF StartsWithPrefix(key) /\ IntParses(Split(key)[Len(Split(key))])
    THEN PyMax(max_num, IntOf(Split(key)[Len(Split(key))]))
    ELSE max_num

\* the body of the for loop of generate_request_key, for one key
ScanStep(key, max_num) ==
    IF StartsWithPrefix(key) /\ IntParses(Split(key)[2])
    THEN PyMax(max_num, IntOf(Split(key)[2]))
    ELSE max_num

RECURSIVE ScanKeys(_, _)
ScanKeys(keys, max_num) ==
    IF keys = <<>> THEN max_num
    ELSE ScanKeys(Tail(keys), ScanStep(Head(keys), max_num))

\* a key generator that numbers by the size of the store, drafts included
generate_request_key_CountAll(db) == "RBGA-" \o ToString(Len(db) + 1)

generate_request_key(db) == "RBGA-" \o ToString(ScanKeys(DbKeys(db), 0) + 1)

\* f"RBGA-DRAFT-{str(uuid.uuid4())[:8].upper()}"
DraftKey(tok) == "RBGA-DRAFT-" \o tok

(***************************************************************************)
(* validate_rbga_request.  A result is either a returned pair (ok, message) *)
(* or an exception raised to the caller.                                    *)
(***************************************************************************)
Ret(ok, msg) == [raised |-> FALSE, ok |-> ok, msg |-> msg]
Raise(exc) == [raised |-> TRUE, ok |-> FALSE, msg |-> exc]

required_fields ==
    <<"summary", "pkey", "issuetype", "applicant", "priority", "sourceSystem", "data">>

\* the approver block left out of the mandatory fields
rbga_required_NoApprover ==
    <<"rbga.field.termCheck", "rbga.field.description", "rbga.field.workflowType">>

rbga_required ==
    <<"rbga.field.termCheck", "rbga.field.description", "rbga.field.workflowType",
      "rbga.field.approver1">>

required_approver_fields == <<"userid", "description">>

\* index of the first name of `fields` that is not in c, 0 when all are
FirstMissing(fields, c) ==
    IF \A i \in 1..Len(fields) : PyIn(fields[i], c) THEN 0
    ELSE CHOOSE i \in 1..Len(fields) :
            /\ ~PyIn(fields[i], c)
            /\ \A j \in 1..(i - 1) : PyIn(fields[j], c)

\* the checks of one approver, in the order of the loop body
ApproverFault(i, approver) ==
    IF ~IsObj(approver)
    THEN "Approver " \o ToString(i) \o " must be an object"
    ELSE IF FirstMissing(required_approver_fields, approver) # 0
    THEN "Approver " \o ToString(i) \o " missing required field: "
            \o required_approver_fields[FirstMissing(required_approver_fields, approver)]
    ELSE ""

\* index (from 1) of the first approver with a fault, 0 when none has one
FirstBadApprover(approvers) ==
    IF \A i \in 1..Len(approvers) : ApproverFault(i - 1, approvers[i]) = "" THEN 0
    ELSE CHOOSE i \in 1..Len(approvers) :
            /\ ApproverFault(i - 1, approvers[i]) # ""
            /\ \A j \in 1..(i - 1) : ApproverFault(j - 1, approvers[j]) = ""

\* lines 96-115: the approver block
ValidateApprovers(data) ==
    LET approver1 == PyGet(data, "rbga.field.approver1", Null)
        approvers == PyGet(approver1, "approvers", List(<<>>))
        bad == FirstBadApprover(approvers.items)
    IN  IF ~IsObj(approver1) \/ ~PyIn("approvers", approver1)
        THEN Ret(FALSE, "rbga.field.approver1 must contain 'approvers' array")
        ELSE IF ~IsList(approvers) \/ Len(approvers.items) = 0
        THEN Ret(FALSE, "rbga.field.approver1.approvers must be a non-empty array")
        ELSE IF bad # 0
        THEN Ret(FALSE, ApproverFault(bad - 1, approvers.items[bad]))
        ELSE Ret(TRUE, "")

\* lines 79-94: presence and enum checks on data
ValidateData(data) ==
    IF InRaises(data) THEN Raise("TypeError")
    ELSE IF FirstMissing(rbga_required, data) # 0
    THEN Ret(FALSE, "Missing required RBGA field: "
                        \o rbga_required[FirstMissing(rbga_required, data)])
    ELSE IF GetRaises(data) THEN Raise("AttributeError")
    ELSE IF PyGet(data, "rbga.field.termCheck", Null) \notin {Str("yes"), Str("no")}
    THEN Ret(FALSE, "rbga.field.termCheck must be 'yes' or 'no'")
    ELSE IF PyGet(data, "rbga.field.workflowType", Null)
                \notin {Str("Parallel"), Str("Serial")}
    THEN Ret(FALSE, "rbga.field.workflowType must be 'Parallel' or 'Serial'")
    ELSE ValidateApprovers(data)

validate_rbga_request(payload) ==
    IF InRaises(payload) THEN Raise("TypeError")
    ELSE IF FirstMissing(required_fields, payload) # 0
    THEN Ret(FALSE, "Missing required field: "
                        \o required_fields[FirstMissing(required_fields, payload)])
    ELSE IF GetRaises(payload) THEN Raise("AttributeError")
    ELSE IF PyGet(payload, "pkey", Null) # Str("RBGA")
    THEN Ret(FALSE, "pkey must be 'RBGA'")
    ELSE IF PyGet(payload, "issuetype", Null) # Str("rbga.issuetype.default")
    THEN Ret(FALSE, "issuetype must be 'rbga.issuetype.default'")
    ELSE IF PyGet(payload, "priority", Null) # Str("default")
    THEN Ret(FALSE, "priority must be 'default'")
    ELSE ValidateData(PyGet(payload, "data", EmptyObj))


(***************************************************************************)
(* The stores.  A Python dict keeps insertion order; assigning to a key     *)
(* that is present replaces the value in place.                             *)
(***************************************************************************)
HasKey(db, key) == \E i \in 1..Len(db) : db[i].key = key

Lookup(db, key) == db[CHOOSE i \in 1..Len(db) : db[i].key = key]

\* an insert that leaves a key that is present as it is (setdefault)
Put_KeepFirst(db, rec) == IF HasKey(db, rec.key) THEN db ELSE Append(db, rec)

\* db[rec.key] = rec
Put(db, rec) ==
    IF HasKey(db, rec.key)
    THEN [i \in 1..Len(db) |-> IF db[i].key = rec.key THEN rec ELSE db[i]]
    ELSE Append(db, rec)

\* str(uuid.uuid4()): 122 random bits, modelled as an id no earlier call returned
Uuid4(adb) == "uuid-" \o ToString(Len(adb) + 1)

\* attachments_db[attachment_id] = {...}
PutAttachment(adb, att) ==
    IF \E i \in 1..Len(adb) : adb[i].id = att.id
    THEN [i \in 1..Len(adb) |-> IF adb[i].id = att.id THEN att ELSE adb[i]]
    ELSE Append(adb, att)

(***************************************************************************)
(* create_request, lines 187-219: the record and the attachment loop.       *)
(***************************************************************************)
\* the dict literal of lines 188-203
NewRequest(payload, request_key, now) ==
    [key |-> request_key,
     summary |-> payload.f["summary"],
     pkey |-> payload.f["pkey"],
     issuetype |-> payload.f["issuetype"],
     applicant |-> payload.f["applicant"],
     priority |-> payload.f["priority"],
     sourceSystem |-> payload.f["sourceSystem"],
     data |-> payload.f["data"],
     created_at |-> now,
     updated_at |-> now,
     status |-> "Submitted",
     resolution |-> Null,
     workflow_stage |-> "Initial Review",
     approvals |-> <<>>]

\* payload.get("data") without the {} default
NewDraft_NoDataDefault(payload, request_key, now) ==
    [key |-> request_key,
     summary |-> payload.f["summary"],
     pkey |-> payload.f["pkey"],
     issuetype |-> PyGet(payload, "issuetype", Str("rbga.issuetype.default")),
     applicant |-> payload.f["applicant"],
     priority |-> PyGet(payload, "priority", Str("default")),
     sourceSystem |-> PyGet(payload, "sourceSystem", Str("WorkON")),
     data |-> PyGet(payload, "data", Null),
     created_at |-> now,
     updated_at |-> now,
     status |-> "Draft",
     resolution |-> Null,
     workflow_stage |-> "Draft",
     approvals |-> <<>>,
     is_draft |-> TRUE]

\* the dict literal of lines 138-154
NewDraft(payload, request_key, now) ==
    [key |-> request_key,
     summary |-> payload.f["summary"],
     pkey |-> payload.f["pkey"],
     issuetype |-> PyGet(payload, "issuetype", Str("rbga.issuetype.default")),
     applicant |-> payload.f["applicant"],
     priority |-> PyGet(payload, "priority", Str("default")),
     sourceSystem |-> PyGet(payload, "sourceSystem", Str("WorkON")),
     data |-> PyGet(payload, "data", EmptyObj),
     created_at |-> now,
     updated_at |-> now,
     status |-> "Draft",
     resolution |-> Null,
     workflow_stage |-> "Draft",
     approvals |-> <<>>,
     is_draft |-> TRUE]

\* enumerate(v) raises TypeError when v is None, a number or a boolean
IterRaises(v) == v.t \in {"null", "num", "bool"}

\* the elements a for loop over v visits: the items of a list, the keys of a dict,
\* the characters of a string.  Keys and characters are strings, and the loop of
\* create_request ends at the first string it meets, so of a dict or a string only
\* the first element is given (as some key, or the string itself).
IterItems(v) ==
    CASE v.t = "list" -> v.items
      [] v.t = "str" -> IF v.s = "" THEN <<>> ELSE <<Str(v.s)>>
      [] v.t = "obj" ->
            IF Keys(v) = {} THEN <<>> ELSE <<Str(CHOOSE k \in Keys(v) : TRUE)>>

\* the dict literal of lines 211-217, for element i (from 0) of the attach value
NewAttachment(attachment_id, i, attachment, request_key, now) ==
    [id |-> attachment_id,
     filename |-> PyGet(attachment, "filename", Str("attachment_" \o ToString(i))),
     file |-> PyGet(attachment, "file", Str("")),
     request_key |-> request_key,
     created_at |-> now]

\* one iteration of the loop of lines 209-218 on the local state [adb, ids, exc]
\* (exc names the exception that ended the loop, "" while none has):
\* element i (from 0) is `attachment`
AttachStep(st, i, attachment, request_key, now) ==
    IF st.exc # "" THEN st
    ELSE IF GetRaises(attachment)
    THEN [st EXCEPT !.exc = "AttributeError"]
    ELSE [adb |-> PutAttachment(st.adb,
                     NewAttachment(Uuid4(st.adb), i, attachment, request_key, now)),
          ids |-> Append(st.ids, Uuid4(st.adb)),
          exc |-> ""]

RECURSIVE AttachLoop(_, _, _, _, _)
AttachLoop(st, items, i, request_key, now) ==
    IF i >= Len(items) THEN st
    ELSE AttachLoop(AttachStep(st, i, items[i + 1], request_key, now),
                    items, i + 1, request_key, now)

\* lines 205-219 on the attachment store adb: the store left behind, the ids
\* collected, and the exception that left the block, if one did
HandleAttachments(adb, data, request_key, now) ==
    LET attachments == data.f["rbga.field.attach"]
        st0 == [adb |-> adb, ids |-> <<>>, exc |-> ""]
    IN  IF IterRaises(attachments) THEN [st0 EXCEPT !.exc = "TypeError"]
        ELSE AttachLoop(st0, IterItems(attachments), 0, request_key, now)

(***************************************************************************)
(* Responses: (body, status code), as jsonify(...) , code.                  *)
(***************************************************************************)
Response(code, body) == [code |-> code, body |-> body]

ErrorBody(msg) == [error |-> msg]

\* a handler without the except clause: the exception leaves it and the framework
\* answers with its own error page
InternalError_Escapes(exc) == Response(500, [html |-> "500 Internal Server Error"])

\* the except clause of every handler; str(e) is modelled by the exception's type
InternalError(exc) == Response(500, ErrorBody("Internal server error: " \o exc))

\* what one run of a create handler leaves behind and answers
Outcome(resp, rdb, adb) == [resp |-> resp, rdb |-> rdb, adb |-> adb]

\* create_request, lines 174-228, run without interruption
create_request(payload, rdb, adb, now) ==
    LET v == validate_rbga_request(payload)
        request_key == generate_request_key(rdb)
        created_request == NewRequest(payload, request_key, now)
        att == HandleAttachments(adb, payload.f["data"], request_key, now)
    IN  IF Falsy(payload)
        THEN Outcome(Response(400, ErrorBody("Request body is required")), rdb, adb)
        ELSE IF v.raised THEN Outcome(InternalError(v.msg), rdb, adb)
        ELSE IF ~v.ok THEN Outcome(Response(400, ErrorBody(v.msg)), rdb, adb)
        ELSE IF ~PyIn("rbga.field.attach", payload.f["data"])
        THEN Outcome(Response(201, [key |-> request_key]),
                     Put(rdb, created_request), adb)
        ELSE IF att.exc # ""
        THEN Outcome(InternalError(att.exc), rdb, att.adb)
        ELSE Outcome(Response(201, [key |-> request_key]),
                     Put(rdb, created_request @@ [attachment_ids |-> att.ids]),
                     att.adb)

\* required_fields of create_draft_request
draft_required == <<"summary", "pkey", "applicant">>

\* create_draft_request, lines 120-169; tok is the token uuid4 yields
create_draft_request(payload, tok, rdb, adb, now) ==
    LET request_key == DraftKey(tok)
        created_request == NewDraft(payload, request_key, now)
    IN  IF Falsy(payload)
        THEN Outcome(Response(400, ErrorBody("Request body is required")), rdb, adb)
        ELSE IF InRaises(payload) THEN Outcome(InternalError("TypeError"), rdb, adb)
        ELSE IF FirstMissing(draft_required, payload) # 0
        THEN Outcome(Response(400, ErrorBody("Missing required field: "
                        \o draft_required[FirstMissing(draft_required, payload)])),
                     rdb, adb)
        ELSE IF GetRaises(payload) THEN Outcome(InternalError("AttributeError"), rdb, adb)
        ELSE IF PyGet(payload, "pkey", Null) # Str("RBGA")
        THEN Outcome(Response(400, ErrorBody("pkey must be 'RBGA'")), rdb, adb)
        ELSE Outcome(Response(201, [success |-> TRUE,
                                    message |-> "RBGA draft request created successfully",
                                    key |-> request_key,
                                    status |-> "Draft",
                                    created_at |-> created_request.created_at]),
                     Put(rdb, created_request), adb)


(***************************************************************************)
(* Request bodies.                                                          *)
(***************************************************************************)
Approver(userid, description) ==
    Obj(("userid" :> Str(userid)) @@ ("description" :> Str(description)))

ApproverBlock(approvers) == Obj("approvers" :> approvers)

ValidData ==
    Obj(("rbga.field.termCheck" :> Str("yes"))
        @@ ("rbga.field.description" :> Str("Detailed Description"))
        @@ ("rbga.field.workflowType" :> Str("Parallel"))
        @@ ("rbga.field.approver1"
                :> ApproverBlock(List(<<Approver("ntid", "Manager")>>))))

\* the body create_rbga_request of the client builds around data
Payload(summary, data) ==
    Obj(("summary" :> Str(summary))
        @@ ("pkey" :> Str("RBGA"))
        @@ ("issuetype" :> Str("rbga.issuetype.default"))
        @@ ("applicant" :> Str("ntid"))
        @@ ("priority" :> Str("default"))
        @@ ("sourceSystem" :> Str("WorkON"))
        @@ ("data" :> data))

AttachItem(filename, file) ==
    Obj(("filename" :> Str(filename)) @@ ("file" :> Str(file)))

\* the values given to rbga.field.attach
AttachGood == List(<<AttachItem("example.pdf", "QmFzZTY0")>>)
AttachDefaults == List(<<AttachItem("a.txt", "YQ=="), EmptyObj>>)
AttachBadSecond == List(<<AttachItem("a.txt", "YQ=="), Str("b.txt")>>)

WithData(k, v) == SetKey(ValidData, k, v)

\* draft body with the three mandatory fields only
MinimalDraft ==
    Obj(("summary" :> Str("Draft")) @@ ("pkey" :> Str("RBGA"))
        @@ ("applicant" :> Str("ntid")))

\* the bodies sent to the server over a run
ServerBodies ==
    {Payload("Request A", ValidData),
     Payload("Request B", WithData("rbga.field.attach", AttachDefaults)),
     Payload("Request C", WithData("rbga.field.attach", AttachBadSecond)),
     Payload("Request D", WithData("rbga.field.termCheck", Str("maybe"))),
     MinimalDraft,
     Null}


(***************************************************************************)
(* The read handlers.                                                       *)
(***************************************************************************)
NotFound(request_key) ==
    Response(404, ErrorBody("Request with key " \o request_key \o " not found"))

\* the hard-coded table of get_status, lines 241-262
StatusTable ==
    <<[i8nValue |-> "Cerrado", localeName |-> "es_ES"],
      [i8nValue |-> "ja:closed", localeName |-> "ja_JP"],
      [i8nValue |-> "ko:closed", localeName |-> "ko_KR"],
      [i8nValue |-> "Closed", localeName |-> "en_UK"],
      [i8nValue |-> "Abgeschlossen", localeName |-> "de_DE"]>>

\* a status lookup whose resolution follows the status the record holds
get_status_StoredStatus(request_key, rdb) ==
    IF ~HasKey(rdb, request_key) THEN NotFound(request_key)
    ELSE Response(200, [status |-> StatusTable,
                        requestKey |-> request_key,
                        resolution |-> IF Lookup(rdb, request_key).status = "Submitted"
                                       THEN "Approved" ELSE "Unresolved"])

\* get_status, lines 233-270
get_status(request_key, rdb) ==
    IF ~HasKey(rdb, request_key) THEN NotFound(request_key)
    ELSE Response(200, [status |-> StatusTable,
                        requestKey |-> request_key,
                        resolution |-> "Approved"])

(***************************************************************************)
(* The server started as a program holds one sample request (lines 527-577);*)
(* imported as a module, as the tests' fixtures do, it starts empty.        *)
(***************************************************************************)
SampleRequest ==
    [key |-> "RBGA-1",
     summary |-> Str("Sample RBGA Request for Testing"),
     pkey |-> Str("RBGA"),
     issuetype |-> Str("rbga.issuetype.default"),
     applicant |-> Str("test.user"),
     priority |-> Str("default"),
     sourceSystem |-> Str("WorkON"),
     data |-> Obj(("common.field.employee.firstname" :> Str("John"))
                  @@ ("common.field.employee.lastname" :> Str("Doe"))
                  @@ ("common.field.employee.department" :> Str("IT"))
                  @@ ("common.field.employee.costcenter" :> Str("CC001"))
                  @@ ("common.field.employee.location" :> Str("Stuttgart"))
                  @@ ("rbga.field.termCheck" :> Str("yes"))
                  @@ ("rbga.field.description"
                        :> Str("Sample RBGA request for testing mock server"))
                  @@ ("rbga.field.comments" :> Str("This is a test request"))
                  @@ ("rbga.field.workflowType" :> Str("Parallel"))
                  @@ ("rbga.field.approver1"
                        :> ApproverBlock(List(<<Approver("manager.test", "Test Manager")>>)))),
     created_at |-> -2,
     updated_at |-> 0,
     status |-> "In Review",
     resolution |-> Null,
     workflow_stage |-> "Manager Approval",
     approvals |-> <<[action |-> "submit", user |-> "test.user",
                      comment |-> "Initial submission", timestamp |-> -2]>>]

Threads == {1, 2}

NoCall == [op |-> "none", key |-> "", body |-> Null, resp |-> Response(0, <<>>)]

Call(op, key, body, resp) == [op |-> op, key |-> key, body |-> body, resp |-> resp]

\* a create call that was answered 201, as its caller knows it
Created(op, body, resp) == [op |-> op, body |-> body, key |-> resp.body.key]

\* the caller of the create call just answered remembers it when the answer is 201
Remember(op, body) ==
    created' = IF last'.resp.code = 201
               THEN Append(created, Created(op, body, last'.resp))
               ELSE created

InitStores ==
    /\ requests_db \in {<<>>, <<SampleRequest>>}
    /\ attachments_db = <<>>
    /\ clock = 0
    /\ last = NoCall
    /\ returned = <<>>
    /\ created = <<>>

IdleThreads ==
    /\ pc = [t \in Threads |-> "idle"]
    /\ t_payload = [t \in Threads |-> Null]
    /\ t_key = [t \in Threads |-> ""]
    /\ t_record = [t \in Threads |-> <<>>]
    /\ t_scan = [t \in Threads |-> [pos |-> 0, used |-> 0, max_num |-> 0]]
    /\ t_i = [t \in Threads |-> 0]
    /\ t_ids = [t \in Threads |-> <<>>]
    /\ t_resp = [t \in Threads |-> Response(0, <<>>)]
    /\ events = <<>>

\* no client has been constructed and no client method called
NoApi == [by |-> "none", args |-> <<>>, kwargs |-> <<>>, exc |-> "", self |-> <<>>]

NoSend == [verb |-> "none", url |-> "", headers |-> <<>>, kwargs |-> <<>>]

NoResult ==
    [method |-> "none", args |-> <<>>, transport |-> "none",
     got |-> [exc |-> "", code |-> 0, json |-> FALSE, body |-> <<>>],
     exc |-> "", value |-> <<>>]

NoClient ==
    /\ api = NoApi
    /\ sent = NoSend
    /\ result = NoResult

Init == InitStores /\ IdleThreads /\ NoClient

(***************************************************************************)
(* The handlers as actions of a server that handles one request at a time.  *)
(***************************************************************************)
\* datetime.now() is reached only past validation
ReadsClock(payload) ==
    /\ ~Falsy(payload)
    /\ ~validate_rbga_request(payload).raised
    /\ validate_rbga_request(payload).ok

DraftReadsClock(payload) ==
    create_draft_request(payload, "1A2B3C4D", <<>>, <<>>, 0).resp.code = 201

\* PUT /createrequest/create
CreateRequest(body) ==
    LET out == create_request(body, requests_db, attachments_db, clock + 1)
    IN  /\ ReadsClock(body) => clock < MaxClock
        /\ requests_db' = out.rdb
        /\ attachments_db' = out.adb
        /\ clock' = IF ReadsClock(body) THEN clock + 1 ELSE clock
        /\ last' = Call("create_request", "", body, out.resp)
        /\ returned' = IF out.resp.code = 201
                       THEN Append(returned, out.resp.body.key)
                       ELSE returned
        /\ UNCHANGED <<thread_vars, client_vars>>

\* PUT /createdraftrequest/draft
CreateDraftRequest(body, tok) ==
    LET out == create_draft_request(body, tok, requests_db, attachments_db, clock + 1)
    IN  /\ DraftReadsClock(body) => clock < MaxClock
        /\ requests_db' = out.rdb
        /\ attachments_db' = out.adb
        /\ clock' = IF DraftReadsClock(body) THEN clock + 1 ELSE clock
        /\ last' = Call("create_draft_request", "", body, out.resp)
        /\ UNCHANGED <<returned, thread_vars, client_vars>>

\* the keys a client asks about: every stored key and one that is not stored
AskedKeys == KeySet(requests_db) \cup {"RBGA-999999"}

\* GET /status/<request_key>
GetStatus(request_key) ==
    /\ last' = Call("get_status", request_key, Null, get_status(request_key, requests_db))
    /\ UNCHANGED <<requests_db, attachments_db, clock, returned, created, thread_vars, client_vars>>

Next ==
    \/ \E body \in ServerBodies : CreateRequest(body) /\ UNCHANGED created
    \/ \E body \in ServerBodies, tok \in Tokens :
            CreateDraftRequest(body, tok) /\ UNCHANGED created
    \/ \E request_key \in AskedKeys : GetStatus(request_key)

Spec == Init /\ [][Next]_vars


(***************************************************************************)
(* One request to a freshly started server, over a wide set of bodies: a    *)
(* well-formed body changed in up to two places.                            *)
(***************************************************************************)
Absent == [t |-> "absent"]

Edit(lvl, k, v) == [lvl |-> lvl, k |-> k, v |-> v]

EditObj(o, e) == IF e.v = Absent THEN DelKey(o, e.k) ELSE SetKey(o, e.k, e.v)

\* body p with edit e applied, where it applies
Apply(e, p) ==
    IF ~IsObj(p) THEN p
    ELSE IF e.lvl = "top" THEN EditObj(p, e)
    ELSE IF "data" \in Keys(p) /\ IsObj(p.f["data"])
    THEN SetKey(p, "data", EditObj(p.f["data"], e))
    ELSE p

StrList(names) == List([i \in 1..Len(names) |-> Str(names[i])])

\* the top-level fields the template endpoint documents as required, with data
TopLevelFields ==
    {"summary", "pkey", "issuetype", "applicant", "priority", "sourceSystem", "data"}

\* the data fields RBGA_FIELDS marks required
MandatoryDataFields ==
    {"rbga.field.termCheck", "rbga.field.description", "rbga.field.workflowType",
     "rbga.field.approver1"}

TopEdits ==
    {Edit("top", k, Absent) : k \in TopLevelFields}
        \cup {Edit("top", "pkey", Str("OTHER")),
              Edit("top", "issuetype", Str("rbga.issuetype.other")),
              Edit("top", "priority", Str("high"))}
        \cup {Edit("top", "data", v) :
                v \in {Null, Num(1), Str("text"), Str(AllDataNames), List(<<>>),
                       StrList(<<"rbga.field.termCheck", "rbga.field.description",
                                 "rbga.field.workflowType", "rbga.field.approver1">>),
                       EmptyObj}}

ApproverValues ==
    {Null, Str("approvers"), EmptyObj,
     ApproverBlock(Str("ntid")),
     ApproverBlock(EmptyObj),
     ApproverBlock(List(<<>>)),
     ApproverBlock(List(<<Str("ntid")>>)),
     ApproverBlock(List(<<Obj("description" :> Str("Manager"))>>)),
     ApproverBlock(List(<<Obj("userid" :> Str("ntid"))>>)),
     ApproverBlock(List(<<Approver("ntid", "Manager"), Obj("userid" :> Str("ntid2"))>>)),
     ApproverBlock(List(<<Approver("ntid", "Manager"), Approver("ntid2", "")>>))}

AttachValues ==
    {AttachGood, AttachDefaults, AttachBadSecond, List(<<>>), Null, Num(1), Str("x"),
     Str(""), EmptyObj, AttachItem("a.txt", "YQ==")}

DataEdits ==
    {Edit("data", k, Absent) : k \in MandatoryDataFields}
        \cup {Edit("data", "rbga.field.termCheck", v) :
                v \in {Str("no"), Str("maybe"), List(<<Str("yes")>>)}}
        \cup {Edit("data", "rbga.field.workflowType", v) :
                v \in {Str("Serial"), Str("Other")}}
        \cup {Edit("data", "rbga.field.approver1", v) : v \in ApproverValues}
        \cup {Edit("data", "rbga.field.attach", v) : v \in AttachValues}

Edits == TopEdits \cup DataEdits

\* bodies that are no JSON object, or an empty one
OtherBodies ==
    {Null, EmptyObj, Num(5), List(<<>>), List(<<Str("summary")>>),
     StrList(<<"summary", "pkey", "issuetype", "applicant", "priority",
               "sourceSystem", "data">>),
     Str("text"), Str(AllTopNames)}

WideBodies ==
    {Payload("Request A", ValidData)}
        \cup {Apply(e, Payload("Request A", ValidData)) : e \in Edits}
        \cup {Apply(e2, Apply(e1, Payload("Request A", ValidData))) :
                e1 \in Edits, e2 \in Edits}
        \cup {MinimalDraft}
        \cup {Apply(e, MinimalDraft) : e \in Edits}
        \cup OtherBodies

NextOne ==
    \/ /\ last.op = "none"
       /\ \E body \in WideBodies : CreateRequest(body)
       /\ UNCHANGED created
    \/ /\ last.op = "none"
       /\ \E body \in WideBodies, tok \in Tokens : CreateDraftRequest(body, tok)
       /\ UNCHANGED created

SpecOne == Init /\ [][NextOne]_vars


(***************************************************************************)
(* create_request handled by two worker threads of the development server  *)
(* (app.run serves each request on its own thread).  A thread can be        *)
(* preempted between any two statements, and between two steps of the       *)
(* iteration over requests_db.keys(); an iterator whose dict has changed    *)
(* size raises RuntimeError at its next step.                              *)
(***************************************************************************)
\* the bodies the two threads are given
ConcurrentBodies ==
    {Payload("Request A", ValidData),
     Payload("Request B", WithData("rbga.field.attach", AttachDefaults)),
     Payload("Request C", WithData("rbga.field.attach", AttachBadSecond)),
     Payload("Request D", WithData("rbga.field.termCheck", Str("maybe")))}

InitThreads ==
    /\ InitStores
    /\ NoClient
    /\ pc = [t \in Threads |-> "start"]
    /\ t_payload \in [Threads -> ConcurrentBodies]
    /\ t_key = [t \in Threads |-> ""]
    /\ t_record = [t \in Threads |-> <<>>]
    /\ t_scan = [t \in Threads |-> [pos |-> 0, used |-> 0, max_num |-> 0]]
    /\ t_i = [t \in Threads |-> 0]
    /\ t_ids = [t \in Threads |-> <<>>]
    /\ t_resp = [t \in Threads |-> Response(0, <<>>)]
    /\ events = <<>>

\* the handler of thread t returns resp
Return(t, resp) ==
    /\ t_resp' = [t_resp EXCEPT ![t] = resp]
    /\ pc' = [pc EXCEPT ![t] = "done"]

\* lines 175-182: the body is read and validated
T_Validate(t) ==
    LET payload == t_payload[t]
        v == validate_rbga_request(payload)
    IN  /\ pc[t] = "start"
        /\ IF Falsy(payload)
           THEN Return(t, Response(400, ErrorBody("Request body is required")))
           ELSE IF v.raised THEN Return(t, InternalError(v.msg))
           ELSE IF ~v.ok THEN Return(t, Response(400, ErrorBody(v.msg)))
           ELSE /\ pc' = [pc EXCEPT ![t] = "scan"]
                /\ t_resp' = t_resp
        /\ UNCHANGED client_vars
        /\ UNCHANGED <<requests_db, attachments_db, clock, last, returned, created, t_payload,
                       t_key, t_record, t_scan, t_i, t_ids, events>>

\* lines 51-52: max_num = 0 and the iterator over requests_db.keys() is made
T_ScanStart(t) ==
    /\ pc[t] = "scan"
    /\ t_scan' = [t_scan EXCEPT ![t] =
                    [pos |-> 0, used |-> Len(requests_db), max_num |-> 0]]
    /\ pc' = [pc EXCEPT ![t] = "scanning"]
    /\ UNCHANGED client_vars
    /\ UNCHANGED <<requests_db, attachments_db, clock, last, returned, created, t_payload,
                   t_key, t_record, t_i, t_ids, t_resp, events>>

\* lines 52-58: one step of the iterator, with the loop body for the key it yields
T_ScanNext(t) ==
    /\ pc[t] = "scanning"
    /\ t_scan[t].pos < Len(requests_db)
    /\ IF t_scan[t].used # Len(requests_db)
       THEN /\ Return(t, InternalError("RuntimeError"))
            /\ t_scan' = t_scan
       ELSE /\ t_scan' = [t_scan EXCEPT ![t] =
                            [pos |-> @.pos + 1,
                             used |-> @.used,
                             max_num |-> ScanStep(requests_db[@.pos + 1].key, @.max_num)]]
            /\ UNCHANGED <<pc, t_resp>>
    /\ UNCHANGED client_vars
    /\ UNCHANGED <<requests_db, attachments_db, clock, last, returned, created, t_payload,
                   t_key, t_record, t_i, t_ids, events>>

\* lines 59 and 185-203: the iterator is exhausted, the key is returned and the
\* record is built
T_ScanEnd(t) ==
    LET request_key == "RBGA-" \o ToString(t_scan[t].max_num + 1)
    IN  /\ pc[t] = "scanning"
        /\ t_scan[t].pos >= Len(requests_db)
        /\ IF t_scan[t].used # Len(requests_db)
           THEN /\ Return(t, InternalError("RuntimeError"))
                /\ UNCHANGED <<t_key, t_record, clock, events>>
           ELSE /\ t_key' = [t_key EXCEPT ![t] = request_key]
                /\ t_record' = [t_record EXCEPT ![t] =
                                    NewRequest(t_payload[t], request_key, clock + 1)]
                /\ clock' = clock + 1
                /\ events' = Append(events, <<t, "scan">>)
                /\ pc' = [pc EXCEPT ![t] =
                            IF PyIn("rbga.field.attach", t_payload[t].f["data"])
                            THEN "attach" ELSE "insert"]
                /\ t_resp' = t_resp
        /\ UNCHANGED client_vars
        /\ UNCHANGED <<requests_db, attachments_db, last, returned, created, t_payload,
                       t_scan, t_i, t_ids>>

\* lines 207-218: one iteration of the attachment loop
T_Attach(t) ==
    LET attachments == t_payload[t].f["data"].f["rbga.field.attach"]
        st == AttachStep([adb |-> attachments_db, ids |-> t_ids[t], exc |-> ""],
                         t_i[t], IterItems(attachments)[t_i[t] + 1], t_key[t], clock)
    IN  /\ pc[t] = "attach"
        /\ ~IterRaises(attachments) => t_i[t] < Len(IterItems(attachments))
        /\ IF IterRaises(attachments)
           THEN /\ Return(t, InternalError("TypeError"))
                /\ UNCHANGED <<attachments_db, t_i, t_ids>>
           ELSE IF st.exc # ""
           THEN /\ Return(t, InternalError(st.exc))
                /\ UNCHANGED <<attachments_db, t_i, t_ids>>
           ELSE /\ attachments_db' = st.adb
                /\ t_ids' = [t_ids EXCEPT ![t] = st.ids]
                /\ t_i' = [t_i EXCEPT ![t] = @ + 1]
                /\ UNCHANGED <<pc, t_resp>>
        /\ UNCHANGED client_vars
        /\ UNCHANGED <<requests_db, clock, last, returned, created, t_payload, t_key, t_record,
                       t_scan, events>>

\* line 219: the loop is over, created_request["attachment_ids"] = attachment_ids
T_AttachEnd(t) ==
    LET attachments == t_payload[t].f["data"].f["rbga.field.attach"]
    IN  /\ pc[t] = "attach"
        /\ ~IterRaises(attachments)
        /\ t_i[t] >= Len(IterItems(attachments))
        /\ t_record' = [t_record EXCEPT ![t] = @ @@ [attachment_ids |-> t_ids[t]]]
        /\ pc' = [pc EXCEPT ![t] = "insert"]
        /\ UNCHANGED client_vars
        /\ UNCHANGED <<requests_db, attachments_db, clock, last, returned, created, t_payload,
                       t_key, t_scan, t_i, t_ids, t_resp, events>>

\* lines 222-225: the record is stored and the key is answered
T_Insert(t) ==
    /\ pc[t] = "insert"
    /\ requests_db' = Put(requests_db, t_record[t])
    /\ events' = Append(events, <<t, "insert">>)
    /\ Return(t, Response(201, [key |-> t_key[t]]))
    /\ UNCHANGED client_vars
    /\ UNCHANGED <<attachments_db, clock, last, returned, created, t_payload, t_key, t_record,
                   t_scan, t_i, t_ids>>

NextThreads ==
    \E t \in Threads :
        \/ T_Validate(t)
        \/ T_ScanStart(t)
        \/ T_ScanNext(t)
        \/ T_ScanEnd(t)
        \/ T_Attach(t)
        \/ T_AttachEnd(t)
        \/ T_Insert(t)

SpecThreads == InitThreads /\ [][NextThreads]_vars

(***************************************************************************)
(* The remaining route handlers: detail, attachments, list, template and    *)
(* health.  None of them assigns to a store.                                *)
(***************************************************************************)
\* request.get_json() or {}
BodyOrEmpty(body) == IF Falsy(body) THEN EmptyObj ELSE body

NoField == [exc |-> "", found |-> FALSE, value |-> Null]
FieldValue(v) == [exc |-> "", found |-> TRUE, value |-> v]
FieldRaises(exc) == [exc |-> exc, found |-> FALSE, value |-> Null]

\* `field in data` and, when it holds, data[field] (lines 301-302): membership
\* raises TypeError on None and numbers, on a dict for an unhashable field and on
\* a string for a field that is no string; indexing a list or a string by a
\* string raises TypeError, a list by a number out of range IndexError
FieldLookup(field, data) ==
    CASE data.t \in {"null", "num", "bool"} -> FieldRaises("TypeError")
      [] data.t = "obj" ->
            IF field.t \in {"list", "obj"} THEN FieldRaises("TypeError")
            ELSE IF field.t = "str" /\ field.s \in Keys(data)
            THEN FieldValue(data.f[field.s])
            ELSE NoField
      [] data.t = "list" ->
            IF ~\E i \in 1..Len(data.items) : data.items[i] = field THEN NoField
            ELSE IF field.t # "num" THEN FieldRaises("TypeError")
            ELSE IF field.n \in 0..(Len(data.items) - 1)
            THEN FieldValue(data.items[field.n + 1])
            ELSE IF field.n \in (-Len(data.items))..(-1)
            THEN FieldValue(data.items[Len(data.items) + field.n + 1])
            ELSE FieldRaises("IndexError")
      [] data.t = "str" ->
            IF field.t # "str" THEN FieldRaises("TypeError")
            ELSE IF IsSubstring(field.s, data.s) THEN FieldRaises("TypeError")
            ELSE NoField

\* the key jsonify writes for a dict key
KeyText(field) ==
    CASE field.t = "str" -> field.s
      [] field.t = "num" -> ToString(field.n)
      [] field.t = "null" -> "null"

\* one iteration of the loop of lines 300-302 on the local state [out, exc]:
\* out is response["customFields"], exc the exception that ended the loop
CustomFieldStep(st, field, data) ==
    LET r == FieldLookup(field, data)
    IN  IF st.exc # "" THEN st
        ELSE IF r.exc # "" THEN [st EXCEPT !.exc = r.exc]
        ELSE IF r.found THEN [st EXCEPT !.out = (KeyText(field) :> r.value) @@ st.out]
        ELSE st

RECURSIVE CustomFieldLoop(_, _, _, _)
CustomFieldLoop(st, fields, i, data) ==
    IF i > Len(fields) THEN st
    ELSE CustomFieldLoop(CustomFieldStep(st, fields[i], data), fields, i + 1, data)

RECURSIVE SetToSeq(_)
SetToSeq(S) ==
    IF S = {} THEN <<>>
    ELSE LET x == CHOOSE y \in S : TRUE IN <<x>> \o SetToSeq(S \ {x})

\* what `for field in custom_fields` visits: the items of a list, the keys of a
\* dict (a string would give its characters; no body of the model holds one)
Elements(v) ==
    CASE v.t = "list" -> v.items
      [] v.t = "obj" -> [i \in 1..Cardinality(Keys(v)) |-> Str(SetToSeq(Keys(v))[i])]

\* lines 298-302 on the stored data
CustomFields(custom_fields, data) ==
    LET st0 == [out |-> <<>>, exc |-> ""]
    IN  IF IterRaises(custom_fields) THEN [st0 EXCEPT !.exc = "TypeError"]
        ELSE CustomFieldLoop(st0, Elements(custom_fields), 1, data)

\* a detail fetch that answers the data map whether or not fields were asked for
get_workitem_detail_DataAlways(request_key, body, rdb) ==
    LET payload == BodyOrEmpty(body)
        request_data == Lookup(rdb, request_key)
        base == [key |-> request_key,
                 summary |-> request_data.summary,
                 status |-> request_data.status,
                 resolution |-> request_data.resolution,
                 created_at |-> request_data.created_at,
                 updated_at |-> request_data.updated_at]
        response == IF PyGet(payload, "approvalHistory", Null) = Str("yes")
                    THEN base @@ [approvalHistory |-> request_data.approvals]
                    ELSE base
        custom_fields == PyGet(payload, "customFields", List(<<>>))
        cf == CustomFields(custom_fields, request_data.data)
    IN  IF ~HasKey(rdb, request_key) THEN NotFound(request_key)
        ELSE IF GetRaises(payload) THEN InternalError("AttributeError")
        ELSE IF Falsy(custom_fields)
        THEN Response(200, response @@ [data |-> request_data.data])
        ELSE IF cf.exc # "" THEN InternalError(cf.exc)
        ELSE Response(200, response @@ [customFields |-> cf.out,
                                        data |-> request_data.data])

\* get_workitem_detail, lines 276-312
get_workitem_detail(request_key, body, rdb) ==
    LET payload == BodyOrEmpty(body)
        request_data == Lookup(rdb, request_key)
        base == [key |-> request_key,
                 summary |-> request_data.summary,
                 status |-> request_data.status,
                 resolution |-> request_data.resolution,
                 created_at |-> request_data.created_at,
                 updated_at |-> request_data.updated_at]
        response == IF PyGet(payload, "approvalHistory", Null) = Str("yes")
                    THEN base @@ [approvalHistory |-> request_data.approvals]
                    ELSE base
        custom_fields == PyGet(payload, "customFields", List(<<>>))
        cf == CustomFields(custom_fields, request_data.data)
    IN  IF ~HasKey(rdb, request_key) THEN NotFound(request_key)
        ELSE IF GetRaises(payload) THEN InternalError("AttributeError")
        ELSE IF Falsy(custom_fields)
        THEN Response(200, response @@ [data |-> request_data.data])
        ELSE IF cf.exc # "" THEN InternalError(cf.exc)
        ELSE Response(200, response @@ [customFields |-> cf.out])

\* str.lower(), over the spellings of the two flag values
Lower(s) ==
    CASE s \in {"true", "True", "TRUE"} -> "true"
      [] s \in {"false", "False", "FALSE"} -> "false"
      [] OTHER -> s

\* the dict literal of lines 331-336
AttachmentEntry(attachment) ==
    [id |-> attachment.id,
     filename |-> attachment.filename,
     file |-> attachment.file,
     created_at |-> attachment.created_at]

\* lines 327-336: the attachments stored for request_key, in the order of the store
RequestAttachments(adb, request_key) ==
    LET mine == SelectSeq(adb, LAMBDA attachment : attachment.request_key = request_key)
    IN  [i \in 1..Len(mine) |-> AttachmentEntry(mine[i])]

\* the condition of lines 347-348
Matches(attachment, attachment_name, attachment_id) ==
    \/ ~Falsy(attachment_name) /\ attachment.filename = attachment_name
    \/ ~Falsy(attachment_id) /\ Str(attachment.id) = attachment_id

\* a search that keeps the last attachment that matches
FirstMatch_Last(request_attachments, attachment_name, attachment_id) ==
    LET hits == {i \in 1..Len(request_attachments) :
                    Matches(request_attachments[i], attachment_name, attachment_id)}
    IN  IF hits = {} THEN 0 ELSE CHOOSE i \in hits : \A j \in hits : j <= i

\* lines 345-350: the position of target_attachment, 0 for None
FirstMatch(request_attachments, attachment_name, attachment_id) ==
    LET hits == {i \in 1..Len(request_attachments) :
                    Matches(request_attachments[i], attachment_name, attachment_id)}
    IN  IF hits = {} THEN 0 ELSE CHOOSE i \in hits : \A j \in hits : i <= j

\* get_workitem_attachments, lines 317-360
get_workitem_attachments(request_key, body, rdb, adb) ==
    LET payload == BodyOrEmpty(body)
        sendAll == PyGet(payload, "sendAll", Str("false"))
        attachment_name == PyGet(payload, "attachmentName", Null)
        attachment_id == PyGet(payload, "attachmentId", Null)
        request_attachments == RequestAttachments(adb, request_key)
        target == FirstMatch(request_attachments, attachment_name, attachment_id)
    IN  IF ~HasKey(rdb, request_key) THEN NotFound(request_key)
        ELSE IF GetRaises(payload) THEN InternalError("AttributeError")
        ELSE IF sendAll.t # "str" THEN InternalError("AttributeError")
        ELSE IF Lower(sendAll.s) = "true"
        THEN Response(200, [attachments |-> request_attachments,
                            count |-> Len(request_attachments)])
        ELSE IF target = 0 THEN Response(404, ErrorBody("Attachment not found"))
        ELSE Response(200, [attachment |-> request_attachments[target]])

\* the dict literal of lines 480-487
ListEntry(req_data) ==
    [key |-> req_data.key,
     summary |-> req_data.summary,
     status |-> req_data.status,
     applicant |-> req_data.applicant,
     created_at |-> req_data.created_at,
     workflow_stage |-> req_data.workflow_stage]

\* a listing that looks at the status filter only
Listed_StatusOnly(req_data, status_filter, pkey_filter) ==
    ~(~Falsy(status_filter) /\ Str(req_data.status) # status_filter)

\* the two tests of lines 475-478
Listed(req_data, status_filter, pkey_filter) ==
    /\ ~(~Falsy(status_filter) /\ Str(req_data.status) # status_filter)
    /\ ~(~Falsy(pkey_filter) /\ req_data.pkey # pkey_filter)

\* list_requests, lines 466-494; a query parameter is a string, or None when absent
list_requests(status_filter, pkey_filter, rdb) ==
    LET kept == SelectSeq(rdb, LAMBDA req_data :
                                   Listed(req_data, status_filter, pkey_filter))
    IN  Response(200, [requests |-> [i \in 1..Len(kept) |-> ListEntry(kept[i])],
                       count |-> Len(kept)])

\* get_rbga_template, lines 365-461: a constant document, given by its entries
\* (the nested documents by the names of theirs)
get_rbga_template ==
    Response(200, [template_name |-> "RBGA",
                   description |-> "Request for Budget, Governance & Approval template",
                   version |-> "1.0",
                   application_key |-> "RBGA",
                   issue_type |-> "rbga.issuetype.default",
                   required_fields |-> {"summary", "pkey", "issuetype", "applicant",
                                        "priority", "sourceSystem"},
                   data_fields |-> "RBGA_FIELDS",
                   sample_payload |-> {"summary", "pkey", "issuetype", "applicant",
                                       "priority", "sourceSystem", "data"}])

\* health_check, lines 497-516, which has no try block; now is the instant read
health_check(now) ==
    Response(200, [status |-> "healthy",
                   service |-> "Mock WorkOn RBGA API",
                   version |-> "1.0.0",
                   timestamp |-> now,
                   rbga_operations |-> 5,
                   additional_endpoints |-> <<"GET /rbga/template", "GET /requests",
                                              "GET /health">>])

(***************************************************************************)
(* The server with all its routes, one request at a time.                   *)
(***************************************************************************)
\* create calls (full or draft) that pass validation, per run of the whole server
MaxStored == 2

\* two attachments of one name, and one whose name is the empty string
AttachTwins ==
    List(<<AttachItem("a.txt", "MQ=="), AttachItem("a.txt", "Mg=="),
           AttachItem("", "Mw==")>>)

\* a draft whose data is null
DraftNullData == SetKey(MinimalDraft, "data", Null)

FullBodies ==
    {Payload("Request A", ValidData),
     Payload("Request B", WithData("rbga.field.attach", AttachTwins)),
     Payload("Request C", WithData("rbga.field.attach", AttachBadSecond)),
     Payload("Request D", WithData("rbga.field.termCheck", Str("maybe"))),
     Null}

DraftBodies == {MinimalDraft, DraftNullData, Null}

\* the bodies of POST /workitemdetails/<key>, as get_workitem_detail of the
\* client builds them, and some it does not build
DetailBody(custom_fields, history) ==
    LET a == IF history THEN "approvalHistory" :> Str("yes") ELSE <<>>
        b == IF custom_fields = Null THEN <<>> ELSE "customFields" :> custom_fields
    IN  Obj(a @@ b)

TestCustomFields ==
    List(<<Str("rbga.field.description"), Str("common.field.employee.companycode")>>)

DetailBodies ==
    {Null,
     DetailBody(Null, TRUE),
     DetailBody(TestCustomFields, FALSE),
     DetailBody(TestCustomFields, TRUE),
     DetailBody(List(<<>>), FALSE),
     Obj("approvalHistory" :> Str("YES")),
     DetailBody(Num(5), FALSE),
     List(<<Str("customFields")>>)}

\* the bodies of POST /workitemattachments/<key>
AttachmentBody(sendAll, attachment_name, attachment_id) ==
    LET a == "user" :> Str("ntid")
        b == IF sendAll = Absent THEN <<>> ELSE "sendAll" :> sendAll
        c == IF attachment_name = Absent THEN <<>> ELSE "attachmentName" :> attachment_name
        d == IF attachment_id = Absent THEN <<>> ELSE "attachmentId" :> attachment_id
    IN  Obj(a @@ b @@ c @@ d)

AttachmentBodies ==
    {Null,
     AttachmentBody(Str("true"), Absent, Absent),
     AttachmentBody(Str("True"), Str("a.txt"), Absent),
     AttachmentBody(Str("false"), Absent, Absent),
     AttachmentBody(Str("false"), Str("a.txt"), Absent),
     AttachmentBody(Str("false"), Str(""), Absent),
     AttachmentBody(Str("false"), Str("b.txt"), Absent),
     AttachmentBody(Absent, Absent, Str("uuid-2")),
     AttachmentBody(Str("false"), Str("b.txt"), Str("uuid-3")),
     AttachmentBody(Null, Absent, Absent)}

Filters == {Null, Str(""), Str("Draft"), Str("Submitted"), Str("RBGA")}

\* a detail fetch that stamps the record it reads
GetWorkitemDetail_Touch(request_key, body) ==
    /\ last' = Call("get_workitem_detail", request_key, body,
                    get_workitem_detail(request_key, body, requests_db))
    /\ requests_db' = [i \in 1..Len(requests_db) |->
                          IF requests_db[i].key = request_key
                          THEN [requests_db[i] EXCEPT !.updated_at = clock + 1]
                          ELSE requests_db[i]]
    /\ UNCHANGED <<attachments_db, clock, returned, created, thread_vars, client_vars>>

\* POST /workitemdetails/<request_key>
GetWorkitemDetail(request_key, body) ==
    /\ last' = Call("get_workitem_detail", request_key, body,
                    get_workitem_detail(request_key, body, requests_db))
    /\ UNCHANGED <<requests_db, attachments_db, clock, returned, created, thread_vars, client_vars>>

\* POST /workitemattachments/<request_key>
GetWorkitemAttachments(request_key, body) ==
    /\ last' = Call("get_workitem_attachments", request_key, body,
                    get_workitem_attachments(request_key, body, requests_db,
                                             attachments_db))
    /\ UNCHANGED <<requests_db, attachments_db, clock, returned, created, thread_vars, client_vars>>

\* GET /requests?status=...&pkey=...
ListRequests(status_filter, pkey_filter) ==
    /\ last' = Call("list_requests", "",
                    Obj(("status" :> status_filter) @@ ("pkey" :> pkey_filter)),
                    list_requests(status_filter, pkey_filter, requests_db))
    /\ UNCHANGED <<requests_db, attachments_db, clock, returned, created, thread_vars, client_vars>>

\* GET /rbga/template
GetRbgaTemplate ==
    /\ last' = Call("get_rbga_template", "", Null, get_rbga_template)
    /\ UNCHANGED <<requests_db, attachments_db, clock, returned, created, thread_vars, client_vars>>

\* GET /health; the instant it reads is not stored
HealthCheck ==
    /\ last' = Call("health_check", "", Null, health_check(clock + 1))
    /\ UNCHANGED <<requests_db, attachments_db, clock, returned, created, thread_vars, client_vars>>

NextServer ==
    \/ \E body \in FullBodies :
            /\ ReadsClock(body) => clock < MaxStored
            /\ CreateRequest(body)
            /\ Remember("create_request", body)
    \/ \E body \in DraftBodies, tok \in Tokens :
            /\ DraftReadsClock(body) => clock < MaxStored
            /\ CreateDraftRequest(body, tok)
            /\ Remember("create_draft_request", body)
    \/ \E request_key \in AskedKeys : GetStatus(request_key)
    \/ \E request_key \in AskedKeys, body \in DetailBodies :
            GetWorkitemDetail(request_key, body)
    \/ \E request_key \in AskedKeys, body \in AttachmentBodies :
            GetWorkitemAttachments(request_key, body)
    \/ \E status_filter \in Filters, pkey_filter \in Filters :
            ListRequests(status_filter, pkey_filter)
    \/ GetRbgaTemplate
    \/ HealthCheck

SpecServer == Init /\ [][NextServer]_vars

(***************************************************************************)
(* The client, python_client/workon_api.py, and the CLI's factory.  A       *)
(* Python value of the client is a JSON value of the model (None is Null);  *)
(* an object is the record of its attributes.                               *)
(***************************************************************************)
\* str.rstrip('/'), over the base urls of the model
Rstrip(url) ==
    CASE url = "http://localhost:5001/" -> "http://localhost:5001"
      [] url = "http://localhost:5001//" -> "http://localhost:5001"
      [] OTHER -> url

\* the parameters of __init__ after self, line 24
InitParams == <<"base_url", "key_id">>

\* the call does not fit the signature (TypeError): a positional argument too
\* many, a keyword that is no parameter, a parameter given twice, no base_url
BindRaises(args, kwargs) ==
    \/ Len(args) > Len(InitParams)
    \/ \E k \in DOMAIN kwargs : \A i \in 1..Len(InitParams) : InitParams[i] # k
    \/ \E i \in 1..Len(args) : i <= Len(InitParams) /\ InitParams[i] \in DOMAIN kwargs
    \/ Len(args) = 0 /\ "base_url" \notin DOMAIN kwargs

\* the value parameter i is bound to
Bind(args, kwargs, i, default) ==
    IF i <= Len(args) THEN args[i]
    ELSE IF InitParams[i] \in DOMAIN kwargs THEN kwargs[InitParams[i]]
    ELSE default

\* WorkOnAPI(*args, **kwargs), lines 24-45: the exception raised, or the object
WorkOnAPI(args, kwargs) ==
    LET base_url == Bind(args, kwargs, 1, Null)
        key_id == Bind(args, kwargs, 2, Null)
        content == "Content-Type" :> Str("application/json")
        headers == IF Falsy(key_id) THEN content ELSE content @@ ("KeyId" :> key_id)
    IN  IF BindRaises(args, kwargs) THEN [exc |-> "TypeError", self |-> <<>>]
        ELSE IF base_url.t # "str" THEN [exc |-> "AttributeError", self |-> <<>>]
        ELSE [exc |-> "",
              self |-> [base_url |-> Rstrip(base_url.s),
                        key_id |-> key_id,
                        session |-> [headers |-> headers]]]

\* the DEFAULT section of the CLI's configuration, workon_cli.py lines 43-48,
\* and a timeout a user has set
Configs ==
    {[endpoint |-> "http://localhost:5001", key_id |-> "test-key-id", timeout |-> t] :
        t \in {"30", "60"}}

\* int(s) for the timeouts of the configurations
IntOfTimeout(s) == CHOOSE n \in {30, 60} : ToString(n) = s

\* get_api_client, workon_cli.py lines 62-68
get_api_client(config) ==
    WorkOnAPI(<<Str(config.endpoint), Str(config.key_id), Num(IntOfTimeout(config.timeout))>>,
              <<>>)

\* applicant.lower(), over the applicants of the model
LowerName(s) ==
    CASE s = "NTID" -> "ntid"
      [] s = "John.Doe" -> "john.doe"
      [] OTHER -> s

\* what a method hands to the session: the verb, the url, the keyword arguments;
\* with it the route of the mock server the url names
HttpCall(verb, url, kwargs, op, key) ==
    [verb |-> verb, url |-> url, kwargs |-> kwargs, op |-> op, key |-> key]

\* the class constant of line 15, the default of the parameter source_system
DEFAULT_SOURCE_SYSTEM == "WorkON"

\* the value of a parameter the call may leave out
OrDefault(v, default) == IF v = Absent THEN default ELSE v

\* a create_rbga_request that sends the applicant as it was given
WorkOnAPI_create_rbga_request_AsGiven(self, summary, applicant, data, source_system) ==
    HttpCall("PUT", self.base_url \o "/createrequest/create",
             "json" :> Obj(("summary" :> Str(summary))
                           @@ ("pkey" :> Str("RBGA"))
                           @@ ("issuetype" :> Str("rbga.issuetype.default"))
                           @@ ("applicant" :> Str(applicant))
                           @@ ("priority" :> Str("default"))
                           @@ ("sourceSystem"
                                 :> OrDefault(source_system, Str(DEFAULT_SOURCE_SYSTEM)))
                           @@ ("data" :> data)),
             "create_request", "")

\* create_rbga_request, lines 47-77; source_system is Absent when the caller
\* leaves it out
WorkOnAPI_create_rbga_request(self, summary, applicant, data, source_system) ==
    HttpCall("PUT", self.base_url \o "/createrequest/create",
             "json" :> Obj(("summary" :> Str(summary))
                           @@ ("pkey" :> Str("RBGA"))
                           @@ ("issuetype" :> Str("rbga.issuetype.default"))
                           @@ ("applicant" :> Str(LowerName(applicant)))
                           @@ ("priority" :> Str("default"))
                           @@ ("sourceSystem"
                                 :> OrDefault(source_system, Str(DEFAULT_SOURCE_SYSTEM)))
                           @@ ("data" :> data)),
             "create_request", "")

\* create_draft_rbga_request, lines 99-114
WorkOnAPI_create_draft_rbga_request(self, summary, applicant, data) ==
    HttpCall("PUT", self.base_url \o "/createdraftrequest/draft",
             "json" :> SetKey(SetKey(Payload(summary, data), "applicant",
                                     Str(LowerName(applicant))),
                              "draft", Bool(TRUE)),
             "create_draft_request", "")

\* get_request_status, lines 133-136
WorkOnAPI_get_request_status(self, request_key) ==
    HttpCall("GET", self.base_url \o "/status/" \o request_key, <<>>,
             "get_status", request_key)

\* get_workitem_detail, lines 159-170
WorkOnAPI_get_workitem_detail(self, request_key, custom_fields, include_approval_history) ==
    LET a == IF include_approval_history THEN "approvalHistory" :> Str("yes") ELSE <<>>
        b == IF Falsy(custom_fields) THEN <<>> ELSE "customFields" :> custom_fields
    IN  HttpCall("POST", self.base_url \o "/workitemdetails/" \o request_key,
                 "json" :> Obj(a @@ b), "get_workitem_detail", request_key)

\* str(b) for a bool
PyStr(b) == IF b THEN "True" ELSE "False"

\* a get_attachments that sends the name whenever one was given
WorkOnAPI_get_attachments_NameAlways(self, request_key, user, attachment_name, send_all) ==
    LET a == ("user" :> Str(user))
                @@ ("sendAll" :> Str(Lower(PyStr(send_all))))
        b == IF ~Falsy(attachment_name)
             THEN "attachmentName" :> attachment_name ELSE <<>>
    IN  HttpCall("POST", self.base_url \o "/workitemattachments/" \o request_key,
                 "json" :> Obj(a @@ b), "get_workitem_attachments", request_key)

\* get_attachments, lines 193-204
WorkOnAPI_get_attachments(self, request_key, user, attachment_name, send_all) ==
    LET a == ("user" :> Str(user))
                @@ ("sendAll" :> Str(Lower(PyStr(send_all))))
        b == IF ~send_all /\ ~Falsy(attachment_name)
             THEN "attachmentName" :> attachment_name ELSE <<>>
    IN  HttpCall("POST", self.base_url \o "/workitemattachments/" \o request_key,
                 "json" :> Obj(a @@ b), "get_workitem_attachments", request_key)

\* what the session call gives: an exception of the transport, or a response
\* with a status code and a body that is JSON or not
TransportRaises(exc) == [exc |-> exc, code |-> 0, json |-> FALSE, body |-> <<>>]
HttpResponse(code, json, body) == [exc |-> "", code |-> code, json |-> json, body |-> body]

\* a method that answers None when the call failed
Finish_Swallow(got) ==
    IF got.exc # "" \/ got.code >= 400 \/ ~got.json
    THEN [exc |-> "", value |-> <<>>]
    ELSE [exc |-> "", value |-> got.body]

\* lines 76-81, and the same block in the four other methods: an exception of
\* the session call is raised again, raise_for_status() raises HTTPError for a
\* status from 400, response.json() raises for a body that is not JSON
Finish(got) ==
    IF got.exc # "" THEN [exc |-> got.exc, value |-> <<>>]
    ELSE IF got.code >= 400 /\ got.code < 600 THEN [exc |-> "HTTPError", value |-> <<>>]
    ELSE IF ~got.json THEN [exc |-> "JSONDecodeError", value |-> <<>>]
    ELSE [exc |-> "", value |-> got.body]

\* the routes of the mock server, lines 117, 171, 230, 273, 314
Serve(op, key, body, tok, rdb, adb, now) ==
    CASE op = "create_request" -> create_request(body, rdb, adb, now)
      [] op = "create_draft_request" -> create_draft_request(body, tok, rdb, adb, now)
      [] op = "get_status" -> Outcome(get_status(key, rdb), rdb, adb)
      [] op = "get_workitem_detail" ->
            Outcome(get_workitem_detail(key, body, rdb), rdb, adb)
      [] op = "get_workitem_attachments" ->
            Outcome(get_workitem_attachments(key, body, rdb, adb), rdb, adb)

\* the call passes datetime.now() in the server
ServeReadsClock(op, body) ==
    \/ op = "create_request" /\ ReadsClock(body)
    \/ op = "create_draft_request" /\ DraftReadsClock(body)

\* how a call of the client ends: the mock server answers it, the connection
\* fails, the call times out, or something between the two answers in its place
Transports == {"server", "ConnectionError", "Timeout", "BadGateway", "NotJson"}

Failure(transport) ==
    CASE transport \in {"ConnectionError", "Timeout"} -> TransportRaises(transport)
      [] transport = "BadGateway" -> HttpResponse(502, FALSE, <<>>)
      [] transport = "NotJson" -> HttpResponse(200, FALSE, <<>>)

JsonBody(call) == IF "json" \in DOMAIN call.kwargs THEN call.kwargs["json"] ELSE Null

\* one method call of the client from the session call on: what was sent, what
\* the server did with it, what the caller gets
Issue(method, args, call, transport, tok) ==
    LET out == Serve(call.op, call.key, JsonBody(call), tok,
                     requests_db, attachments_db, clock + 1)
        got == IF transport = "server"
               THEN HttpResponse(out.resp.code, TRUE, out.resp.body)
               ELSE Failure(transport)
    IN  /\ api.by # "none"
        /\ api.exc = ""
        /\ sent' = [verb |-> call.verb, url |-> call.url,
                    headers |-> api.self.session.headers, kwargs |-> call.kwargs]
        /\ result' = [method |-> method, args |-> args, transport |-> transport,
                       got |-> got]
                        @@ Finish(got)
        /\ IF transport = "server"
           THEN /\ ServeReadsClock(call.op, JsonBody(call)) => clock < MaxStored
                /\ requests_db' = out.rdb
                /\ attachments_db' = out.adb
                /\ clock' = IF ServeReadsClock(call.op, JsonBody(call))
                            THEN clock + 1 ELSE clock
                /\ last' = Call(call.op, call.key, JsonBody(call), out.resp)
                /\ returned' = IF call.op = "create_request" /\ out.resp.code = 201
                               THEN Append(returned, out.resp.body.key)
                               ELSE returned
           ELSE /\ last' = NoCall
                /\ UNCHANGED <<requests_db, attachments_db, clock, returned, created>>
        /\ UNCHANGED <<created, api, thread_vars>>

\* the constructor calls of the tests: (base_url), (base_url, key_id),
\* (base_url, key_id, timeout=t)
ConstructorCalls ==
    {[args |-> <<Str("http://localhost:5001")>>, kwargs |-> <<>>],
     [args |-> <<Str("http://localhost:5001/"), Str("test-key")>>, kwargs |-> <<>>],
     [args |-> <<Str("http://localhost:5001"), Str("test-key")>>,
      kwargs |-> "timeout" :> Num(60)]}

\* api = WorkOnAPI(...)
Construct(c) ==
    /\ api.by = "none"
    /\ api' = [by |-> "WorkOnAPI", args |-> c.args, kwargs |-> c.kwargs]
                @@ WorkOnAPI(c.args, c.kwargs)
    /\ UNCHANGED <<requests_db, attachments_db, clock, last, returned, created, thread_vars,
                   sent, result>>

\* api = cli.get_api_client()
GetApiClient(config) ==
    /\ api.by = "none"
    /\ api' = [by |-> "get_api_client",
               args |-> <<Str(config.endpoint), Str(config.key_id),
                          Num(IntOfTimeout(config.timeout))>>,
               kwargs |-> <<>>]
                @@ get_api_client(config)
    /\ UNCHANGED <<requests_db, attachments_db, clock, last, returned, created, thread_vars,
                   sent, result>>

\* the keys the client's callers ask about: the first key the server gives, and
\* one it never gives
ClientKeys == {"RBGA-1", "RBGA-999999"}

\* the data the client's callers pass
ClientData ==
    {ValidData, WithData("rbga.field.termCheck", Str("maybe")), EmptyObj, Null}

\* the other arguments of the create calls: summary, applicant and source_system
\* (left out in the first)
CreateCalls ==
    {[summary |-> "No Auth Test", applicant |-> "NTID", source_system |-> Absent],
     [summary |-> "Test Summary", applicant |-> "John.Doe",
      source_system |-> Str("TestSystem")]}

\* the attachment_name and send_all the callers of get_attachments pass
AttachmentCalls ==
    {[attachment_name |-> Null, send_all |-> TRUE],
     [attachment_name |-> Str("a.txt"), send_all |-> TRUE],
     [attachment_name |-> Str("a.txt"), send_all |-> FALSE],
     [attachment_name |-> Str(""), send_all |-> FALSE],
     [attachment_name |-> Null, send_all |-> FALSE]}

CreateRbgaRequest(summary, applicant, data, source_system, transport) ==
    /\ api.exc = "" /\ api.by # "none"
    /\ Issue("create_rbga_request",
             [summary |-> summary, applicant |-> applicant, data |-> data,
              source_system |-> source_system],
             WorkOnAPI_create_rbga_request(api.self, summary, applicant, data,
                                           source_system),
             transport, "1A2B3C4D")

CreateDraftRbgaRequest(summary, applicant, data, transport, tok) ==
    /\ api.exc = "" /\ api.by # "none"
    /\ Issue("create_draft_rbga_request",
             [summary |-> summary, applicant |-> applicant, data |-> data],
             WorkOnAPI_create_draft_rbga_request(api.self, summary, applicant, data),
             transport, tok)

GetRequestStatus(request_key, transport) ==
    /\ api.exc = "" /\ api.by # "none"
    /\ Issue("get_request_status", [request_key |-> request_key],
             WorkOnAPI_get_request_status(api.self, request_key), transport, "1A2B3C4D")

GetWorkitemDetailOfClient(request_key, custom_fields, include_approval_history, transport) ==
    /\ api.exc = "" /\ api.by # "none"
    /\ Issue("get_workitem_detail",
             [request_key |-> request_key, custom_fields |-> custom_fields,
              include_approval_history |-> include_approval_history],
             WorkOnAPI_get_workitem_detail(api.self, request_key, custom_fields,
                                           include_approval_history),
             transport, "1A2B3C4D")

GetAttachments(request_key, attachment_name, send_all, transport) ==
    /\ api.exc = "" /\ api.by # "none"
    /\ Issue("get_attachments",
             [request_key |-> request_key, user |-> "ntid",
              attachment_name |-> attachment_name, send_all |-> send_all],
             WorkOnAPI_get_attachments(api.self, request_key, "ntid", attachment_name,
                                       send_all),
             transport, "1A2B3C4D")

NextClient ==
    \/ \E c \in ConstructorCalls : Construct(c)
    \/ \E config \in Configs : GetApiClient(config)
    \/ \E c \in CreateCalls, data \in ClientData, transport \in Transports :
            CreateRbgaRequest(c.summary, c.applicant, data, c.source_system, transport)
    \/ \E transport \in Transports :
            CreateDraftRbgaRequest("Draft", "ntid", EmptyObj, transport, "1A2B3C4D")
    \/ \E request_key \in ClientKeys, transport \in Transports :
            GetRequestStatus(request_key, transport)
    \/ \E request_key \in ClientKeys, transport \in Transports :
            \/ GetWorkitemDetailOfClient(request_key, Null, FALSE, transport)
            \/ GetWorkitemDetailOfClient(request_key, TestCustomFields, TRUE, transport)
    \/ \E request_key \in ClientKeys, c \in AttachmentCalls, transport \in Transports :
            GetAttachments(request_key, c.attachment_name, c.send_all, transport)

SpecClient == Init /\ [][NextClient]_vars

(***************************************************************************)
(* Properties.                                                              *)
(***************************************************************************)
IsFullCreate201 == last.op = "create_request" /\ last.resp.code = 201

\* key is RBGA-<n> for a number n
IsNumericKey(key) == \E n \in 0..ParseBound : key = "RBGA-" \o ToString(n)

KeyNumber(key) == CHOOSE n \in 0..ParseBound : key = "RBGA-" \o ToString(n)

IsDraftRecord(r) == r.status = "Draft"

\* C1: in a run of a server that handles one request at a time, the keys answered
\* by the successful full-create calls are pairwise distinct and their numbers
\* strictly increase in the order of the calls, whatever rejected creates, draft
\* creates and reads come in between.
C1_KeysDistinctIncreasing ==
    /\ \A i \in 1..Len(returned) : IsNumericKey(returned[i])
    /\ \A i, j \in 1..Len(returned) :
          i < j => /\ returned[i] # returned[j]
                   /\ KeyNumber(returned[i]) < KeyNumber(returned[j])

\* two full creates answered, with a draft stored between their records
C1_Witness ==
    /\ Len(returned) = 2
    /\ \E i, j, k \in 1..Len(requests_db) :
          /\ i < j /\ j < k
          /\ requests_db[i].key = returned[1]
          /\ IsDraftRecord(requests_db[j])
          /\ requests_db[k].key = returned[2]

\* C2 (as claimed): no create call stores its record under a key that is already in
\* the request store, so every record already stored is left as it is.
C2_KeyNeverReused ==
    [][/\ Len(requests_db') >= Len(requests_db)
       /\ \A i \in 1..Len(requests_db) : requests_db'[i] = requests_db[i]]_vars

\* C3 (as claimed): in every state a handler leaves behind, every attachment record
\* names a key of the request store.
C3_AttachmentsReferenceRequests ==
    \A i \in 1..Len(attachments_db) : HasKey(requests_db, attachments_db[i].request_key)

\* the numbers n for which RBGA-<n> is a key of db
NumbersOf(db) == {n \in 0..ParseBound : ("RBGA-" \o ToString(n)) \in KeySet(db)}

\* RBGA-1 for a store without numbered keys, else RBGA-<largest number + 1>
ExpectedNextKey(db) ==
    IF NumbersOf(db) = {} THEN "RBGA-1"
    ELSE "RBGA-" \o ToString(1 + CHOOSE n \in NumbersOf(db) :
                                    \A m \in NumbersOf(db) : m <= n)

\* C5: on every store the server reaches, generate_request_key returns RBGA-<one
\* more than the largest number among the keys RBGA-<number>>, RBGA-1 when there is
\* none, draft keys having no influence; and the key a successful full create
\* answers is that key for the store the call found.
C5_NextKeyIsMaxPlusOne ==
    /\ generate_request_key(requests_db) = ExpectedNextKey(requests_db)
    /\ IsFullCreate201 =>
          /\ requests_db[Len(requests_db)].key = last.resp.body.key
          /\ last.resp.body.key
                = ExpectedNextKey(SubSeq(requests_db, 1, Len(requests_db) - 1))

\* a full create answered RBGA-2 on a store that held RBGA-1 and the draft whose
\* token is all digits
C5_Witness ==
    /\ IsFullCreate201
    /\ last.resp.body.key = "RBGA-2"
    /\ HasKey(requests_db, "RBGA-1")
    /\ HasKey(requests_db, DraftKey("00000002"))

\* the conditions under which a full create is accepted, as the schema states them
HasAll(o, names) == IsObj(o) /\ names \subseteq Keys(o)

TopLevelValid(body) ==
    /\ HasAll(body, TopLevelFields)
    /\ body.f["pkey"] = Str("RBGA")
    /\ body.f["issuetype"] = Str("rbga.issuetype.default")
    /\ body.f["priority"] = Str("default")

ApproverBlockValid(a) ==
    /\ IsObj(a)
    /\ "approvers" \in Keys(a)
    /\ IsList(a.f["approvers"])
    /\ Len(a.f["approvers"].items) > 0
    /\ \A i \in 1..Len(a.f["approvers"].items) :
          HasAll(a.f["approvers"].items[i], {"userid", "description"})

DataValid(data) ==
    /\ HasAll(data, MandatoryDataFields)
    /\ data.f["rbga.field.termCheck"] \in {Str("yes"), Str("no")}
    /\ data.f["rbga.field.workflowType"] \in {Str("Parallel"), Str("Serial")}
    /\ ApproverBlockValid(data.f["rbga.field.approver1"])

SchemaValid(body) == TopLevelValid(body) /\ DataValid(body.f["data"])

IsNonEmptyObject(body) == IsObj(body) /\ Keys(body) # {}

\* C6 (as claimed): a full create with a non-empty JSON object body answers 201
\* exactly when the body meets the schema, and 400 otherwise.
C6_CreateIffSchemaValid ==
    (last.op = "create_request" /\ IsNonEmptyObject(last.body)) =>
        /\ last.resp.code = 201 <=> SchemaValid(last.body)
        /\ last.resp.code \in {201, 400}

\* the mandatory data fields that data lacks
MissingData(data) == MandatoryDataFields \ Keys(data)

LacksDataField(body) ==
    /\ TopLevelValid(body)
    /\ IsObj(body.f["data"])
    /\ MissingData(body.f["data"]) # {}

\* C7: a full create whose body is valid at the top level and whose data mapping
\* lacks one of the four mandatory fields is answered 400 with an error that names a
\* field data lacks (the one, when data lacks one), and both stores stay as they
\* were.
C7_MissingDataFieldNamed ==
    (last.op = "create_request" /\ LacksDataField(last.body)) =>
        /\ last.resp.code = 400
        /\ \E f \in MissingData(last.body.f["data"]) :
              last.resp.body.error = "Missing required RBGA field: " \o f
        /\ requests_db \in {<<>>, <<SampleRequest>>}
        /\ attachments_db = <<>>

\* a full create was sent without the approver block only
C7_Witness ==
    /\ last.op = "create_request"
    /\ LacksDataField(last.body)
    /\ MissingData(last.body.f["data"]) = {"rbga.field.approver1"}
    /\ last.resp.body.error = "Missing required RBGA field: rbga.field.approver1"

DraftFault(body) ==
    \/ ~HasAll(body, {"summary", "pkey", "applicant"})
    \/ body.f["pkey"] # Str("RBGA")

\* C8 (as claimed): a full create or draft create whose body is missing, empty or
\* does not meet the schema is answered 400, never 500 or 201.
C8_MalformedAnswered400 ==
    /\ (last.op = "create_request" /\ (Falsy(last.body) \/ ~SchemaValid(last.body)))
          => last.resp.code = 400
    /\ (last.op = "create_draft_request" /\ (Falsy(last.body) \/ DraftFault(last.body)))
          => last.resp.code = 400

IsMinimalDraft(body) ==
    /\ IsObj(body)
    /\ Keys(body) = {"summary", "pkey", "applicant"}
    /\ body.f["pkey"] = Str("RBGA")

\* C9: a draft create whose body holds only summary, pkey = 'RBGA' and applicant is
\* answered 201 with success, message, key, status 'Draft' and created_at, and the
\* record stored under the key has status and workflow_stage 'Draft', is_draft true,
\* data {} and the defaults for issuetype, priority and sourceSystem.
C9_MinimalDraftStored ==
    (last.op = "create_draft_request" /\ IsMinimalDraft(last.body)) =>
        /\ last.resp.code = 201
        /\ DOMAIN last.resp.body = {"success", "message", "key", "status", "created_at"}
        /\ last.resp.body.success = TRUE
        /\ last.resp.body.status = "Draft"
        /\ HasKey(requests_db, last.resp.body.key)
        /\ LET r == Lookup(requests_db, last.resp.body.key)
           IN  /\ r.status = "Draft"
               /\ r.workflow_stage = "Draft"
               /\ "is_draft" \in DOMAIN r
               /\ r.is_draft = TRUE
               /\ r.data = EmptyObj
               /\ r.issuetype = Str("rbga.issuetype.default")
               /\ r.priority = Str("default")
               /\ r.sourceSystem = Str("WorkON")
               /\ r.summary = last.body.f["summary"]
               /\ r.applicant = last.body.f["applicant"]
               /\ r.created_at = last.resp.body.created_at

\* the minimal draft was created on a store that already held a request
C9_Witness ==
    /\ last.op = "create_draft_request"
    /\ IsMinimalDraft(last.body)
    /\ last.resp.code = 201
    /\ Len(requests_db) >= 2

\* C10 (as claimed): a draft create with a non-empty body is answered 400 exactly
\* when summary, pkey or applicant is absent or pkey is not 'RBGA', and 201 in every
\* other case, whatever data holds.
C10_DraftRejectedExactly ==
    (last.op = "create_draft_request" /\ ~Falsy(last.body)) =>
        /\ last.resp.code = 400 <=> DraftFault(last.body)
        /\ ~DraftFault(last.body) => last.resp.code = 201


\* thread t has stored its record
Inserted(t) == \E i \in 1..Len(events) : events[i] = <<t, "insert">>

\* both threads finished the key scan before either stored its record
BothScannedFirst ==
    /\ Len(events) >= 2
    /\ events[1][2] = "scan"
    /\ events[2][2] = "scan"

\* the thread whose insert came last
LaterInserter == events[Len(events)][1]

\* C4: when two full creates run concurrently and both finish the key scan before
\* either stores its record, both have computed the same key; each one that stores
\* its record answers 201 with that key; and once both have stored, the store holds
\* a single record under the key, the one of the later insert.
C4_ConcurrentCreatesShareKey ==
    BothScannedFirst =>
        /\ t_key[1] = t_key[2]
        /\ \A t \in Threads :
              Inserted(t) => t_resp[t] = Response(201, [key |-> t_key[1]])
        /\ (Inserted(1) /\ Inserted(2)) =>
              /\ Cardinality({i \in 1..Len(requests_db) :
                                requests_db[i].key = t_key[1]}) = 1
              /\ Lookup(requests_db, t_key[1]) = t_record[LaterInserter]

\* two different requests were both answered 201 with the same key, and the record
\* of the first to insert is no longer in the store
C4_Witness ==
    /\ BothScannedFirst
    /\ Inserted(1) /\ Inserted(2)
    /\ t_resp[1].code = 201
    /\ t_resp[2] = t_resp[1]
    /\ t_payload[1] # t_payload[2]
    /\ \A i \in 1..Len(requests_db) :
          requests_db[i] # t_record[IF LaterInserter = 1 THEN 2 ELSE 1]

(***************************************************************************)
(* The read handlers and the client.                                        *)
(***************************************************************************)
\* the locale tags of the status table, in the order the contract gives them
FiveLocales == <<"es_ES", "ja_JP", "ko_KR", "en_UK", "de_DE">>

LocalesOf(table) == [i \in 1..Len(table) |-> table[i].localeName]

\* C11: a status lookup for a key that is not stored answers 404; for a stored
\* key, full or draft, it answers 200 with the five-entry locale table, the
\* requested key as requestKey and resolution 'Approved', whatever status and
\* resolution the record holds.
C11_StatusLookup ==
    last.op = "get_status" =>
        IF last.key \notin KeySet(requests_db)
        THEN last.resp.code = 404
        ELSE /\ last.resp.code = 200
             /\ DOMAIN last.resp.body = {"status", "requestKey", "resolution"}
             /\ LocalesOf(last.resp.body.status) = FiveLocales
             /\ \A i \in 1..5 : last.resp.body.status[i].i8nValue # ""
             /\ last.resp.body.requestKey = last.key
             /\ last.resp.body.resolution = "Approved"

\* a draft, whose stored status is 'Draft' and resolution null, looked up
C11_Witness ==
    /\ last.op = "get_status"
    /\ HasKey(requests_db, last.key)
    /\ IsDraftRecord(Lookup(requests_db, last.key))
    /\ Lookup(requests_db, last.key).status = "Draft"
    /\ last.resp.code = 200

\* C12: once a record is stored under a key, no server operation changes any of
\* its fields or removes it: after every step each stored key is still stored
\* and holds the record it held before.
C12_RecordsNeverChange ==
    [][\A i \in 1..Len(requests_db) :
            /\ HasKey(requests_db', requests_db[i].key)
            /\ Lookup(requests_db', requests_db[i].key) = requests_db[i]]_vars

\* the body asks for a non-empty list of field names
AsksCustomFields(body) ==
    /\ IsObj(body)
    /\ "customFields" \in Keys(body)
    /\ IsList(body.f["customFields"])
    /\ Len(body.f["customFields"].items) > 0
    /\ \A i \in 1..Len(body.f["customFields"].items) :
            body.f["customFields"].items[i].t = "str"

RequestedNames(body) ==
    {body.f["customFields"].items[i].s : i \in 1..Len(body.f["customFields"].items)}

\* C13: a detail fetch with a non-empty customFields list on a stored request
\* answers 200, and the customFields of the answer map exactly the requested
\* names that are in the request's data, each to its stored value.
C13_CustomFieldsAnswered ==
    (/\ last.op = "get_workitem_detail"
     /\ HasKey(requests_db, last.key)
     /\ AsksCustomFields(last.body))
    => /\ last.resp.code = 200
       /\ "customFields" \in DOMAIN last.resp.body
       /\ LET data == Lookup(requests_db, last.key).data
              given == last.resp.body.customFields
          IN  /\ IsObj(data)
              /\ DOMAIN given = RequestedNames(last.body) \cap Keys(data)
              /\ \A n \in DOMAIN given : given[n] = data.f[n]

SendsAll(body) == IsObj(body) /\ "sendAll" \in Keys(body) /\ body.f["sendAll"] = Str("true")

\* the record was created by a draft create, or by a full create whose data had
\* no rbga.field.attach
CreatedWithoutAttachments(r) ==
    \/ IsDraftRecord(r)
    \/ IsObj(r.data) /\ "rbga.field.attach" \notin Keys(r.data)

\* C14: an attachment fetch with sendAll 'true' on a stored request that was
\* created without attachments answers 200 with count 0 and an empty list.
C14_SendAllNoAttachments ==
    (/\ last.op = "get_workitem_attachments"
     /\ HasKey(requests_db, last.key)
     /\ SendsAll(last.body)
     /\ CreatedWithoutAttachments(Lookup(requests_db, last.key)))
    => /\ last.resp.code = 200
       /\ last.resp.body.count = 0
       /\ last.resp.body.attachments = <<>>

\* the body asks for one attachment: sendAll is 'false' or not given
SelectsOne(body) ==
    \/ body = Null
    \/ /\ IsObj(body)
       /\ "sendAll" \in Keys(body) => body.f["sendAll"] = Str("false")

Supplied(body, name) == IsObj(body) /\ name \in Keys(body)

NonEmptyText(v) == v.t = "str" /\ v.s # ""

\* positions in the attachment store of the attachments of the request
AttachmentsOf(request_key) ==
    {i \in 1..Len(attachments_db) : attachments_db[i].request_key = request_key}

\* attachment i has the name or the id the body supplies
NamedOrIdentified(i, body) ==
    \/ /\ Supplied(body, "attachmentName")
       /\ attachments_db[i].filename = body.f["attachmentName"]
    \/ /\ Supplied(body, "attachmentId")
       /\ Str(attachments_db[i].id) = body.f["attachmentId"]

\* the same, for a name or an id that is not the empty string
NamedOrIdentifiedNonEmpty(i, body) ==
    \/ /\ Supplied(body, "attachmentName")
       /\ NonEmptyText(body.f["attachmentName"])
       /\ attachments_db[i].filename = body.f["attachmentName"]
    \/ /\ Supplied(body, "attachmentId")
       /\ NonEmptyText(body.f["attachmentId"])
       /\ Str(attachments_db[i].id) = body.f["attachmentId"]

\* the answer is the earliest of the attachments at positions hits, or 404
AnswersFirstOf(hits) ==
    IF hits = {}
    THEN last.resp = Response(404, ErrorBody("Attachment not found"))
    ELSE LET first == CHOOSE i \in hits : \A j \in hits : i <= j
         IN  /\ last.resp.code = 200
             /\ DOMAIN last.resp.body = {"attachment"}
             /\ last.resp.body.attachment.id = attachments_db[first].id
             /\ last.resp.body.attachment.filename = attachments_db[first].filename
             /\ last.resp.body.attachment.file = attachments_db[first].file

\* C15 as stated: with sendAll false the handler returns the first attachment of
\* the request whose filename equals the supplied attachmentName or whose id
\* equals the supplied attachmentId, and answers 404 'Attachment not found' when
\* none does.
C15_FirstMatchAsStated ==
    (/\ last.op = "get_workitem_attachments"
     /\ HasKey(requests_db, last.key)
     /\ SelectsOne(last.body))
    => AnswersFirstOf({i \in AttachmentsOf(last.key) : NamedOrIdentified(i, last.body)})

\* C15, amended: with sendAll false the handler returns the first attachment of
\* the request, in insertion order, whose filename equals the supplied non-empty
\* attachmentName or whose id equals the supplied non-empty attachmentId; when
\* none does, which includes a name or an id that is empty or not supplied, it
\* answers 404 'Attachment not found'.
C15_FirstMatch ==
    (/\ last.op = "get_workitem_attachments"
     /\ HasKey(requests_db, last.key)
     /\ SelectsOne(last.body))
    => AnswersFirstOf({i \in AttachmentsOf(last.key) :
                            NamedOrIdentifiedNonEmpty(i, last.body)})

\* a name that two attachments of the request carry was asked for and answered
C15_Witness ==
    /\ last.op = "get_workitem_attachments"
    /\ HasKey(requests_db, last.key)
    /\ SelectsOne(last.body)
    /\ Cardinality({i \in AttachmentsOf(last.key) :
                        NamedOrIdentifiedNonEmpty(i, last.body)}) >= 2
    /\ last.resp.code = 200

ExceptionNames == {"TypeError", "AttributeError", "IndexError", "ValueError",
                   "KeyError", "RuntimeError"}

\* invocations during which the interpreter raises: a read whose body is a
\* non-empty value that is no object, an attachment fetch whose sendAll is no
\* string, a field lookup in data that is no object, a create whose attachment
\* list holds a string
Faulty(call) ==
    \/ /\ call.op \in {"get_workitem_detail", "get_workitem_attachments"}
       /\ HasKey(requests_db, call.key)
       /\ call.body.t = "list"
       /\ Len(call.body.items) > 0
    \/ /\ call.op = "get_workitem_attachments"
       /\ HasKey(requests_db, call.key)
       /\ Supplied(call.body, "sendAll")
       /\ call.body.f["sendAll"].t # "str"
    \/ /\ call.op = "get_workitem_detail"
       /\ HasKey(requests_db, call.key)
       /\ AsksCustomFields(call.body)
       /\ Lookup(requests_db, call.key).data = Null
    \/ /\ call.op = "create_request"
       /\ SchemaValid(call.body)
       /\ "rbga.field.attach" \in Keys(call.body.f["data"])
       /\ IsList(call.body.f["data"].f["rbga.field.attach"])
       /\ \E i \in 1..Len(call.body.f["data"].f["rbga.field.attach"].items) :
            call.body.f["data"].f["rbga.field.attach"].items[i].t = "str"

\* C16: every invocation of a route handler returns a JSON answer with status
\* 200, 201, 400, 404 or 500; an answer of 400 and above is an object with an
\* error string, and an exception raised while handling is answered 500 with an
\* error string that begins 'Internal server error:'.
C16_NoExceptionEscapes ==
    last.op # "none" =>
        /\ last.resp.code \in {200, 201, 400, 404, 500}
        /\ last.resp.code >= 400 => DOMAIN last.resp.body = {"error"}
        /\ last.resp.code = 500 =>
                last.resp.body.error
                    \in {"Internal server error: " \o e : e \in ExceptionNames}
        /\ Faulty(last) => last.resp.code = 500

\* a detail fetch during which an exception was raised
C16_Witness ==
    /\ last.op = "get_workitem_detail"
    /\ Faulty(last)
    /\ last.resp.code = 500

\* the timeout the constructor call asks for: its third argument, 30 by default
TimeoutAskedFor(a) ==
    IF "timeout" \in DOMAIN a.kwargs THEN a.kwargs["timeout"]
    ELSE IF Len(a.args) >= 3 THEN a.args[3]
    ELSE Num(30)

\* C17: the client takes a timeout as third option: WorkOnAPI(base_url) and
\* WorkOnAPI(base_url, key_id) give a client whose timeout is 30,
\* WorkOnAPI(base_url, key_id, timeout=t) one whose timeout is t, and the CLI's
\* WorkOnAPI(endpoint, key_id, timeout) one with the configured timeout.
C17_TimeoutOption ==
    api.by # "none" =>
        /\ api.exc = ""
        /\ "timeout" \in DOMAIN api.self
        /\ api.self.timeout = TimeoutAskedFor(api)

\* C18: every outbound HTTP call of the client is issued with the client's
\* timeout as keyword argument: session.get(url, timeout=30) on a default client.
C18_CallsCarryTimeout ==
    sent.verb # "none" =>
        /\ "timeout" \in DOMAIN sent.kwargs
        /\ sent.kwargs["timeout"] = TimeoutAskedFor(api)

\* the call failed: the transport raised, the status is 400 or above, or the
\* body is not JSON
CallFailed(got) == got.exc # "" \/ got.code >= 400 \/ ~got.json

\* C19: no client method swallows a failure: a connection failure or a timeout
\* reaches the caller as that exception, a response with status 400 or above as
\* HTTPError, a body that is not JSON as a decode error, and a method returns a
\* value, the decoded body, only when the call succeeded.
C19_FailuresRaise ==
    result.method # "none" =>
        /\ result.got.exc # "" => result.exc = result.got.exc
        /\ (result.got.exc = "" /\ result.got.code >= 400) => result.exc = "HTTPError"
        /\ (result.got.exc = "" /\ result.got.code < 400 /\ ~result.got.json)
                => result.exc = "JSONDecodeError"
        /\ CallFailed(result.got) <=> result.exc # ""
        /\ ~CallFailed(result.got) => result.value = result.got.body
        /\ result.transport = "server" =>
                /\ result.got.code = last.resp.code
                /\ result.got.body = last.resp.body

\* the mock server answered 404 and the method raised HTTPError
C19_Witness ==
    /\ result.method = "get_workitem_detail"
    /\ result.transport = "server"
    /\ last.resp.code = 404
    /\ result.exc = "HTTPError"

\* C20: a full create sent by a client that was constructed without key_id, and
\* so sends no KeyId header, is answered 400 by the mock server, valid payload
\* or not.
C20_NoKeyIdRejected ==
    (/\ result.method = "create_rbga_request"
     /\ result.transport = "server"
     /\ "KeyId" \notin DOMAIN sent.headers)
    => /\ last.resp.code = 400
       /\ result.exc = "HTTPError"

(***************************************************************************)
(* The client's payloads, keys, validation order and the stores over a run. *)
(***************************************************************************)
\* the applicants of the callers, in lower case
LowerCased ==
    ("NTID" :> "ntid") @@ ("John.Doe" :> "john.doe") @@ ("ntid" :> "ntid")

\* the reasons the checks on data give
DataReasons ==
    {"Missing required RBGA field: " \o f : f \in MandatoryDataFields}
        \cup {"rbga.field.termCheck must be 'yes' or 'no'",
              "rbga.field.workflowType must be 'Parallel' or 'Serial'",
              "rbga.field.approver1 must contain 'approvers' array",
              "rbga.field.approver1.approvers must be a non-empty array"}
        \cup {"Approver " \o ToString(i) \o " must be an object" : i \in 0..2}
        \cup {"Approver " \o ToString(i) \o " missing required field: " \o f :
                i \in 0..2, f \in {"userid", "description"}}

WithoutDrafts(db) == SelectSeq(db, LAMBDA r : ~IsDraftRecord(r))

\* key is RBGA-DRAFT-<token> for a token of eight characters
IsDraftKey(key) ==
    /\ key \in {"RBGA-DRAFT-" \o tok : tok \in Tokens}
    /\ Len(key) = Len("RBGA-DRAFT-") + 8

\* C22: draft keys and full-request keys never coincide and do not interact: every
\* draft is stored under RBGA-DRAFT-<8-character token>, which is no key
\* RBGA-<number> and was answered by no full create; every other record is stored
\* under RBGA-<number>; and the key of the next full create is the one the store
\* without its drafts gives, however many drafts have been created.
C22_DraftKeysApart ==
    /\ \A i \in 1..Len(requests_db) :
          IF IsDraftRecord(requests_db[i])
          THEN /\ IsDraftKey(requests_db[i].key)
               /\ ~IsNumericKey(requests_db[i].key)
               /\ \A j \in 1..Len(returned) : returned[j] # requests_db[i].key
          ELSE /\ IsNumericKey(requests_db[i].key)
               /\ ~IsDraftKey(requests_db[i].key)
    /\ generate_request_key(requests_db) = ExpectedNextKey(WithoutDrafts(requests_db))
    /\ IsFullCreate201 =>
          last.resp.body.key
            = ExpectedNextKey(WithoutDrafts(SubSeq(requests_db, 1, Len(requests_db) - 1)))

\* a full create that followed two draft creates was answered the key that follows
\* the key of the request stored before the drafts
C22_Witness ==
    /\ IsFullCreate201
    /\ \E i, j, k \in 1..Len(requests_db) :
          /\ i < j /\ j < k /\ k < Len(requests_db)
          /\ IsNumericKey(requests_db[i].key)
          /\ IsDraftRecord(requests_db[j])
          /\ IsDraftRecord(requests_db[k])
          /\ last.resp.body.key = "RBGA-" \o ToString(KeyNumber(requests_db[i].key) + 1)

\* the top-level names and the data names, in the order the checks take them
TopLevelOrder ==
    <<"summary", "pkey", "issuetype", "applicant", "priority", "sourceSystem", "data">>

DataOrder ==
    <<"rbga.field.termCheck", "rbga.field.description", "rbga.field.workflowType",
      "rbga.field.approver1">>

\* the first name of `names` that o does not hold, "" when it holds all (a value
\* that is no mapping holds none)
FirstAbsent(names, o) ==
    IF \A i \in 1..Len(names) : IsObj(o) /\ names[i] \in Keys(o) THEN ""
    ELSE names[CHOOSE i \in 1..Len(names) :
                    /\ ~(IsObj(o) /\ names[i] \in Keys(o))
                    /\ \A j \in 1..(i - 1) : IsObj(o) /\ names[j] \in Keys(o)]

\* the reason of the first fault of approver i (from 0), "" when it has none
ApproverReason(i, a) ==
    IF ~IsObj(a) THEN "Approver " \o ToString(i) \o " must be an object"
    ELSE IF "userid" \notin Keys(a)
    THEN "Approver " \o ToString(i) \o " missing required field: userid"
    ELSE IF "description" \notin Keys(a)
    THEN "Approver " \o ToString(i) \o " missing required field: description"
    ELSE ""

\* the reason of the first approver of the list that has a fault, "" when none has
ApproversReason(items) ==
    IF \A i \in 1..Len(items) : ApproverReason(i - 1, items[i]) = "" THEN ""
    ELSE LET first == CHOOSE i \in 1..Len(items) :
                        /\ ApproverReason(i - 1, items[i]) # ""
                        /\ \A j \in 1..(i - 1) : ApproverReason(j - 1, items[j]) = ""
         IN  ApproverReason(first - 1, items[first])

\* the reason of the earliest failing check on data, in the order termCheck,
\* description, workflowType, approver1 present; termCheck value; workflowType
\* value; approver1 a mapping with approvers; approvers a non-empty list; the
\* approvers one by one
DataReason(data) ==
    IF FirstAbsent(DataOrder, data) # ""
    THEN "Missing required RBGA field: " \o FirstAbsent(DataOrder, data)
    ELSE IF data.f["rbga.field.termCheck"] \notin {Str("yes"), Str("no")}
    THEN "rbga.field.termCheck must be 'yes' or 'no'"
    ELSE IF data.f["rbga.field.workflowType"] \notin {Str("Parallel"), Str("Serial")}
    THEN "rbga.field.workflowType must be 'Parallel' or 'Serial'"
    ELSE IF ~(/\ IsObj(data.f["rbga.field.approver1"])
              /\ "approvers" \in Keys(data.f["rbga.field.approver1"]))
    THEN "rbga.field.approver1 must contain 'approvers' array"
    ELSE IF ~(/\ IsList(data.f["rbga.field.approver1"].f["approvers"])
              /\ Len(data.f["rbga.field.approver1"].f["approvers"].items) > 0)
    THEN "rbga.field.approver1.approvers must be a non-empty array"
    ELSE ApproversReason(data.f["rbga.field.approver1"].f["approvers"].items)

\* the reason of the earliest failing check on a JSON object body: the seven
\* top-level names present, then the values of pkey, issuetype and priority, then
\* the checks on data; "" for a body without fault
EarliestReason(body) ==
    IF FirstAbsent(TopLevelOrder, body) # ""
    THEN "Missing required field: " \o FirstAbsent(TopLevelOrder, body)
    ELSE IF body.f["pkey"] # Str("RBGA") THEN "pkey must be 'RBGA'"
    ELSE IF body.f["issuetype"] # Str("rbga.issuetype.default")
    THEN "issuetype must be 'rbga.issuetype.default'"
    ELSE IF body.f["priority"] # Str("default") THEN "priority must be 'default'"
    ELSE DataReason(body.f["data"])

\* C23 (as claimed): full validation of a JSON object stops at the first failing
\* check and reports only that one: a body with one fault or several is answered
\* 400 with the reason of the earliest failing check in the order presence of
\* summary, pkey, issuetype, applicant, priority, sourceSystem, data; pkey value;
\* issuetype value; priority value; presence of termCheck, description,
\* workflowType, approver1 in data; termCheck enum; workflowType enum; approver1 a
\* mapping with approvers; approvers a non-empty list; then each approver in
\* list order: a mapping, with userid, with description.
C23_EarliestFaultReported ==
    (/\ last.op = "create_request"
     /\ IsNonEmptyObject(last.body)
     /\ EarliestReason(last.body) # "")
    => last.resp = Response(400, ErrorBody(EarliestReason(last.body)))

\* v is a list, a mapping or a string that is not empty
NonEmptyValue(v) ==
    \/ v.t = "list" /\ Len(v.items) > 0
    \/ v.t = "obj" /\ Keys(v) # {}
    \/ v.t = "str" /\ v.s # ""

DetailBaseNames == {"key", "summary", "status", "resolution", "created_at", "updated_at"}

\* C24: every 200 detail response holds key, summary, status, resolution,
\* created_at and updated_at of the stored record; it holds approvalHistory, the
\* stored approvals, exactly when the body's approvalHistory is 'yes'; and it
\* holds customFields and no data when the body's customFields is non-empty, and
\* data, the stored data, and no customFields otherwise.
C24_DetailShape ==
    (last.op = "get_workitem_detail" /\ last.resp.code = 200) =>
        /\ HasKey(requests_db, last.key)
        /\ LET r == Lookup(requests_db, last.key)
               b == last.resp.body
               history == /\ Supplied(last.body, "approvalHistory")
                          /\ last.body.f["approvalHistory"] = Str("yes")
               fields == /\ Supplied(last.body, "customFields")
                         /\ NonEmptyValue(last.body.f["customFields"])
           IN  /\ DOMAIN b = DetailBaseNames
                                \cup (IF history THEN {"approvalHistory"} ELSE {})
                                \cup (IF fields THEN {"customFields"} ELSE {"data"})
               /\ b.key = last.key
               /\ b.key = r.key
               /\ b.summary = r.summary
               /\ b.status = r.status
               /\ b.resolution = r.resolution
               /\ b.created_at = r.created_at
               /\ b.updated_at = r.updated_at
               /\ history => b.approvalHistory = r.approvals
               /\ ~fields => b.data = r.data

\* the sample request, which has an approval, was fetched with approvalHistory
\* 'yes' and two field names, one of them in its data
C24_Witness ==
    /\ last.op = "get_workitem_detail"
    /\ last.resp.code = 200
    /\ last.body = DetailBody(TestCustomFields, TRUE)
    /\ Len(last.resp.body.approvalHistory) = 1
    /\ DOMAIN last.resp.body.customFields = {"rbga.field.description"}

\* the record was stored by a full create whose data held a list rbga.field.attach
CreatedWithAttachments(r) ==
    /\ ~IsDraftRecord(r)
    /\ IsObj(r.data)
    /\ "rbga.field.attach" \in Keys(r.data)
    /\ IsList(r.data.f["rbga.field.attach"])

\* the entry of element i (from 1) of the list L: its filename and file, or
\* attachment_<index> and '' where it has none
Submitted(L, i) ==
    [filename |-> IF "filename" \in Keys(L[i]) THEN L[i].f["filename"]
                  ELSE Str("attachment_" \o ToString(i - 1)),
     file |-> IF "file" \in Keys(L[i]) THEN L[i].f["file"] ELSE Str("")]

\* C25 (as claimed): after any sequence of operations, an attachment fetch with
\* sendAll on a request that a successful full create stored with the
\* rbga.field.attach list L answers exactly the attachments of L: count and length
\* are len(L), and entry i has the filename and the file of element i of L; no
\* attachment submitted with another create call is among them.
C25_AttachmentsOfRequest ==
    (/\ last.op = "get_workitem_attachments"
     /\ HasKey(requests_db, last.key)
     /\ SendsAll(last.body)
     /\ CreatedWithAttachments(Lookup(requests_db, last.key)))
    => LET L == Lookup(requests_db, last.key).data.f["rbga.field.attach"].items
       IN  /\ last.resp.code = 200
           /\ last.resp.body.count = Len(L)
           /\ Len(last.resp.body.attachments) = Len(L)
           /\ \A i \in 1..Len(L) :
                /\ last.resp.body.attachments[i].filename = Submitted(L, i).filename
                /\ last.resp.body.attachments[i].file = Submitted(L, i).file

\* a filter was given: the query parameter is there and is not empty
GivenFilter(v) == v.t = "str" /\ v.s # ""

\* positions in the request store of the records the two filters let through
Selected(status_filter, pkey_filter) ==
    {i \in 1..Len(requests_db) :
        /\ GivenFilter(status_filter) => Str(requests_db[i].status) = status_filter
        /\ GivenFilter(pkey_filter) => requests_db[i].pkey = pkey_filter}

\* the k-th position of the set S of positions, counted from 1
Nth(S, k) == CHOOSE i \in S : Cardinality({j \in S : j <= i}) = k

\* C26: GET /requests answers 200 with, in the order of the store, exactly the
\* stored records whose status equals the status filter, when one is given and not
\* empty, and whose pkey equals the pkey filter, when one is given and not empty;
\* count is their number.  With no filter every record is listed, with status
\* 'Draft' alone the records the draft creates stored, with status 'Submitted'
\* alone the records of the keys the full creates answered.
C26_ListFiltered ==
    last.op = "list_requests" =>
        LET status_filter == last.body.f["status"]
            pkey_filter == last.body.f["pkey"]
            S == Selected(status_filter, pkey_filter)
            listed == last.resp.body.requests
            keys == {listed[k].key : k \in 1..Len(listed)}
        IN  /\ last.resp.code = 200
            /\ DOMAIN last.resp.body = {"requests", "count"}
            /\ last.resp.body.count = Len(listed)
            /\ Len(listed) = Cardinality(S)
            /\ \A k \in 1..Len(listed) :
                  /\ listed[k].key = requests_db[Nth(S, k)].key
                  /\ listed[k].summary = requests_db[Nth(S, k)].summary
                  /\ listed[k].status = requests_db[Nth(S, k)].status
            /\ (~GivenFilter(status_filter) /\ ~GivenFilter(pkey_filter)) =>
                  [k \in 1..Len(listed) |-> listed[k].key] = DbKeys(requests_db)
            /\ (status_filter = Str("Draft") /\ ~GivenFilter(pkey_filter)) =>
                  keys = {requests_db[i].key : i \in {j \in 1..Len(requests_db) :
                                                    "is_draft" \in DOMAIN requests_db[j]}}
            /\ (status_filter = Str("Submitted") /\ ~GivenFilter(pkey_filter)) =>
                  keys = {returned[i] : i \in 1..Len(returned)}

\* a store that holds the sample request, a draft and a full request was listed
\* with status 'Submitted' and pkey 'RBGA', and the full request alone was answered
C26_Witness ==
    /\ last.op = "list_requests"
    /\ last.body.f["status"] = Str("Submitted")
    /\ last.body.f["pkey"] = Str("RBGA")
    /\ Len(requests_db) = 3
    /\ \E i \in 1..3 : "is_draft" \in DOMAIN requests_db[i]
    /\ last.resp.body.count = 1
    /\ last.resp.body.requests[1].key = returned[1]

\* C27: get_attachments sends one POST whose JSON body holds user and sendAll, the
\* string 'true' or 'false' and never a JSON boolean, and holds attachmentName,
\* the name given, exactly when send_all is false and a non-empty attachment_name
\* was given; with send_all true the body is exactly user and sendAll 'true'.
C27_AttachmentsPayload ==
    result.method = "get_attachments" =>
        LET body == sent.kwargs["json"]
            named == /\ ~result.args.send_all
                     /\ result.args.attachment_name # Null
                     /\ result.args.attachment_name # Str("")
        IN  /\ sent.verb = "POST"
            /\ sent.url = "http://localhost:5001/workitemattachments/"
                                \o result.args.request_key
            /\ DOMAIN sent.kwargs = {"json"}
            /\ IsObj(body)
            /\ Keys(body) = {"user", "sendAll"}
                                \cup (IF named THEN {"attachmentName"} ELSE {})
            /\ body.f["user"] = Str(result.args.user)
            /\ body.f["sendAll"] = Str(IF result.args.send_all THEN "true" ELSE "false")
            /\ named => body.f["attachmentName"] = result.args.attachment_name
            /\ result.args.send_all =>
                    body = Obj(("user" :> Str(result.args.user))
                               @@ ("sendAll" :> Str("true")))
            /\ result.transport = "server" =>
                    /\ last.op = "get_workitem_attachments"
                    /\ last.body = body

\* get_attachments was called with a name and send_all true, and the mock server
\* was asked for all attachments without a name
C27_Witness ==
    /\ result.method = "get_attachments"
    /\ result.args.send_all
    /\ result.args.attachment_name = Str("a.txt")
    /\ result.transport = "server"
    /\ last.body = Obj(("user" :> Str("ntid")) @@ ("sendAll" :> Str("true")))

CreateOps == {"create_request", "create_draft_request"}

\* C28 (as claimed): a full create or draft create that does not answer 201,
\* whether it answers 400 or 500, leaves the request store and the attachment
\* store exactly as they were before the call.
C28_FailedCreateLeavesStores ==
    [][(last'.op \in CreateOps /\ last'.resp.code # 201) =>
            /\ requests_db' = requests_db
            /\ attachments_db' = attachments_db]_vars

ReadOps == {"get_status", "get_workitem_detail", "get_workitem_attachments",
            "list_requests", "get_rbga_template", "health_check"}

\* C29: the read handlers (status, detail, attachments, list, template, health)
\* never change the request store or the attachment store, whatever key and body
\* they are called with and whatever status they answer.
C29_ReadsLeaveStores ==
    [][last'.op \in ReadOps =>
            /\ requests_db' = requests_db
            /\ attachments_db' = attachments_db]_vars

\* a read was answered 500 on a server that holds a request and attachments
C29_Witness ==
    /\ last.op \in ReadOps
    /\ last.resp.code = 500
    /\ Len(requests_db) > 0
    /\ Len(attachments_db) > 0

\* the data a create call submitted: the body's data, {} for a draft sent without
SubmittedData(c) ==
    IF "data" \in Keys(c.body) THEN c.body.f["data"] ELSE EmptyObj

\* resp is the 200 detail answer that shows what create call c submitted
ShowsCreated(c, resp) ==
    /\ resp.code = 200
    /\ resp.body.key = c.key
    /\ resp.body.summary = c.body.f["summary"]
    /\ resp.body.status = (IF c.op = "create_request" THEN "Submitted" ELSE "Draft")
    /\ resp.body.resolution = Null
    /\ "data" \in DOMAIN resp.body
    /\ resp.body.data = SubmittedData(c)

\* the body of a detail fetch asks for no customFields
WithoutCustomFields(body) == body = Null \/ (IsObj(body) /\ "customFields" \notin Keys(body))

\* C30 (as claimed): read-your-writes.  After a full create with summary s and
\* data d was answered 201 with key k, and after any further operations, a status
\* lookup for k answers 200 and a detail fetch for k without customFields answers
\* 200 with key k, summary s, status 'Submitted', resolution null and data d; after
\* a draft create answered 201 the same holds with status 'Draft' and the data
\* submitted, {} when none was.
C30_ReadYourWrites ==
    \A n \in 1..Len(created) :
        /\ get_status(created[n].key, requests_db).code = 200
        /\ ShowsCreated(created[n], get_workitem_detail(created[n].key, Null, requests_db))
        /\ (last.op = "get_status" /\ last.key = created[n].key) => last.resp.code = 200
        /\ (/\ last.op = "get_workitem_detail"
            /\ last.key = created[n].key
            /\ WithoutCustomFields(last.body))
           => ShowsCreated(created[n], last.resp)

====
